---- MODULE Spec2Model ----
(***************************************************************************)
(* Model of the boccho-desktop window/animation concurrency core:         *)
(*   Window/CharacterWindow.go  (src/unnamed/part_002)                     *)
(*   Window/eventwatch.go       (src/unnamed/part_001)                     *)
(*   AnimationEngine/Animation.go (src/unnamed/part_006)                   *)
(*   app.go, main.go            (controller registry, reaper, shutdown)    *)
(*                                                                         *)
(* Scales are fixed-point numbers in thousandths (0.51 is 510, the floor   *)
(* 0.1 is 100).  A window id also serves as its SDL window id.             *)
(* Every critical section of App.mu is one atomic action; everything that  *)
(* runs outside the lock (Close, the window thread, the event watcher) is  *)
(* split at each access to shared state.                                   *)
(***************************************************************************)
EXTENDS Integers, Sequences, FiniteSets, TLC

\* ---------------------------------------------------------------- bounds
Ids ==
    {"w1", "w2"}

Callers ==
    {"c1", "c2"}

\* the two callers of Update on one player: its own loop and the callback
Actors ==
    {"owner", "watcher"}

\* goroutines that use App.activeWindows: the two callers and the reaper
MuThreads ==
    Callers \cup {"reaper"}

MaxScaleCalls ==
    2

MaxKeyPresses ==
    1

MaxEvents ==
    1

MaxFrames ==
    1

MaxBurst ==
    11

MaxAnimFrames ==
    3

MaxTime ==
    166

MaxForced ==
    2

\* number of file names a frames directory can hold
MaxFiles ==
    3

\* number of Cleanup calls made on one player
MaxCleanups ==
    2

\* ------------------------------------------------------ program constants
ScaleChanCap ==
    10

DefaultScale ==
    510

ScaleFloor ==
    100

DefaultFrameDelay ==
    83

ScaleInputs ==
    {50, 1500}

BurstInputs ==
    {1000, 1500}

\* scales requested below, at and above the floor, zero and negative included
FloorInputs ==
    {-1000, 0, 50, 100, 1500}

\* time steps: one loop delay (part_002 line 148) and one frame interval
TickSteps ==
    {16, DefaultFrameDelay}

\* the scale requested when only the number of pending commands matters
SignalInputs ==
    {1500}

EventTypes ==
    {"quit", "escape", "up", "down", "other"}

ExitEventTypes ==
    {"quit", "escape", "other"}

WatchEventTypes ==
    {"moved", "exposed", "resized", "other"}

NoId ==
    "-"

VARIABLES
    proc,            \* "up" | "crashed" | "exit": the OS process
    ctxDone,         \* App.ctx cancelled
    shutdownSet,     \* ids closed by the OnShutdown hook (history)
    shutdownReturned,\* OnShutdown has returned
    activeWindows,   \* App.activeWindows: set of ids in the map
    reapedAt,        \* where a thread was when the reaper removed it (history)
    lastRet,         \* <<operation, value>> of the last controller call that returned
    destroyed,       \* ids for which DestroyCharacter returned true (history)
    spawnRet,        \* the record SpawnCharacter returned for an id, <<>> before
    held,            \* windows whose loop is suspended inside a platform drag
    lastPoll,        \* time of the last Update made by the loop of a window
    refFrame,        \* frame index of a player polled at every tick (reference)
    refLast,         \* lastFrameTime of that reference player
    forced,          \* forced renders of a window during its current or last hold
    dir,             \* the frames directory: what loading each *.png name yields
    frames,          \* the files whose textures LoadFrames appended, in order (history)
    loadErr,         \* what LoadFrames returned, "unset" before (history)
    upc,             \* where an Update split into its check and its write is
    utime,           \* the currentTime such an Update has read
    muWriter,        \* holder of App.mu for writing, NoId when free
    muReaders,       \* holders of App.mu for reading
    mop,             \* the controller operation a goroutine is inside, "idle" outside
    mstep,           \* the step of that operation it will take next
    mtarget,         \* the window id the operation is about
    mfound,          \* the `exists` result of its map lookup
    apPc,            \* a player used on its own: "new" | "loading" | "ready" | "failed"
    apFiles,         \* the sorted files its LoadFrames has still to process
    apTextures,      \* ap.textures, each texture named by its file
    apSizes,         \* ap.originalSizes, each size named by its file
    apFrame,         \* ap.currentFrame
    apFrameTime,     \* ap.lastFrameTime
    apReleased,      \* DestroyTexture calls made for each texture (history)
    apCleanups,      \* Cleanup calls made (history)
    apLast,          \* <<call, effect>> of the last Update, Render or Cleanup
    pc,              \* position of each window thread
    running,         \* CharacterWindow.running
    closeChan,       \* TRUE iff closeChan is closed
    doneChan,        \* TRUE iff doneChan is closed
    scaleChan,       \* buffered channel contents
    currentScale,    \* CharacterWindow.currentScale
    lastSent,        \* <<v>>: last value handed to SetScale, <<>>: none (history)
    window,          \* native window:   "nil" | "live" | "destroyed"
    renderer,        \* native renderer: "nil" | "live" | "destroyed"
    textures,        \* len(ap.textures)
    freed,           \* number of DestroyTexture calls (history)
    animScale,       \* AnimationPlayer.scale
    currentFrame,    \* AnimationPlayer.currentFrame
    lastFrameTime,   \* AnimationPlayer.lastFrameTime
    now,             \* sdl.GetTicks()
    renderContexts,  \* keys of the global renderContexts map
    cpc,             \* position of each controller caller goroutine
    ctarget,         \* the id a caller works on
    wpc,             \* position of the event watcher callback
    wtarget,         \* window id of the event being handled
    wthread,         \* window thread whose event pump runs the callback
    useAfterFree,    \* the watcher drew with a released handle (history)
    watchRet,        \* what the watcher callback returned last, "none" before
    scaleCalls,      \* number of SetCharacterScale calls made
    keyPresses       \* number of up/down keys handled

procVars ==
    <<proc, ctxDone, shutdownSet, shutdownReturned>>

chanVars ==
    <<closeChan, doneChan, scaleChan, lastSent>>

nativeVars ==
    <<window, renderer, textures, freed>>

animVars ==
    <<animScale, currentFrame, lastFrameTime, now>>

callerVars ==
    <<cpc, ctarget>>

watchVars ==
    <<wpc, wtarget, wthread, useAfterFree, watchRet>>

budgetVars ==
    <<scaleCalls, keyPresses>>

histVars ==
    <<reapedAt>>

retVars ==
    <<lastRet, destroyed, spawnRet>>

raceVars ==
    <<upc, utime>>

muVars ==
    <<muWriter, muReaders, mop, mstep, mtarget, mfound>>

apVars ==
    <<apPc, apFiles, apTextures, apSizes, apFrame, apFrameTime, apReleased,
      apCleanups, apLast>>

loadVars ==
    <<dir, frames, loadErr>>

dragVars ==
    <<held, lastPoll, refFrame, refLast, forced>>

vars ==
    <<procVars, activeWindows, reapedAt, retVars, muVars, apVars, raceVars, loadVars, dragVars, pc, running, chanVars,
      currentScale, nativeVars, animVars, renderContexts, callerVars, watchVars,
      budgetVars>>

\* ------------------------------------------------- AnimationPlayer (pure)
\* file names as digit strings: "1", "2", ... and "10"
FileNames ==
    {<<d>> : d \in 1..(MaxFiles - 1)} \cup {<<1, 0>>}

\* outcome of loading one file: a texture, no surface from img.Load, or no
\* texture from CreateTextureFromSurface
FileOutcomes ==
    {"ok", "nosurface", "notexture"}

\* the order of sort.Strings: byte-wise comparison, a proper prefix first
RECURSIVE LexLess(_, _)
LexLess(a, b) ==
    IF a = <<>> THEN b # <<>>
    ELSE IF b = <<>> THEN FALSE
    ELSE IF Head(a) # Head(b) THEN Head(a) < Head(b)
    ELSE LexLess(Tail(a), Tail(b))

RECURSIVE InsertSorted(_, _)
InsertSorted(x, s) ==
    IF s = <<>> THEN <<x>>
    ELSE IF LexLess(x, Head(s)) THEN <<x>> \o s
    ELSE <<Head(s)>> \o InsertSorted(x, Tail(s))

\* sort.Strings(imageFiles)
RECURSIVE SortStrings(_)
SortStrings(s) ==
    IF s = <<>> THEN <<>>
    ELSE InsertSorted(Head(s), SortStrings(Tail(s)))

\* filepath.Glob(framesPath/*.png): the matching names, in an order the
\* caller does not rely on
Glob(d) ==
    LET present == {f \in DOMAIN d : d[f] # "absent"}
        n == Cardinality(present)
    IN  {s \in [1..n -> present] : \A i, j \in 1..n : i # j => s[i] # s[j]}

\* the loop of LoadFrames: a file without surface or without texture is
\* skipped, a texture is appended
RECURSIVE LoadLoop(_, _)
LoadLoop(files, d) ==
    IF files = <<>> THEN <<>>
    ELSE (IF d[Head(files)] = "ok" THEN <<Head(files)>> ELSE <<>>)
         \o LoadLoop(Tail(files), d)

\* one iteration of the loop of LoadFrames that leaves the size of a file
\* without texture in place
LoadIterationNoPop(f, d, t, sz) ==
    IF d[f] = "nosurface" THEN [textures |-> t, sizes |-> sz]
    ELSE IF d[f] = "ok"
         THEN [textures |-> Append(t, f), sizes |-> Append(sz, f)]
         ELSE [textures |-> t, sizes |-> Append(sz, f)]

\* one iteration of the loop of LoadFrames on file f: no surface skips the
\* file; otherwise the size is appended, then the texture is appended or the
\* size is removed again
LoadIteration(f, d, t, sz) ==
    IF d[f] = "nosurface" THEN [textures |-> t, sizes |-> sz]
    ELSE LET sz1 == Append(sz, f)
         IN  IF d[f] = "ok"
             THEN [textures |-> Append(t, f), sizes |-> sz1]
             ELSE [textures |-> t, sizes |-> SubSeq(sz1, 1, Len(sz1) - 1)]

\* number of times x occurs in the sequence s
Occurrences(x, s) ==
    Cardinality({i \in 1..Len(s) : s[i] = x})

\* a Cleanup that destroys the textures and keeps the slices
APCleanupKeepsSlice(t, sz, rel) ==
    [textures |-> t, sizes |-> sz,
     released |-> [f \in DOMAIN rel |-> rel[f] + Occurrences(f, t)]]

\* AnimationPlayer.Cleanup: DestroyTexture on every element, then both
\* slices are set to nil
APCleanup(t, sz, rel) ==
    [textures |-> <<>>, sizes |-> <<>>,
     released |-> [f \in DOMAIN rel |-> rel[f] + Occurrences(f, t)]]

\* AnimationPlayer.Render: the textures handed to RenderTexture
APRender(t, sz, frame) ==
    IF Len(t) = 0 THEN <<>> ELSE <<t[frame + 1]>>

\* a LoadFrames that keeps the order Glob returned
APLoadFramesUnsorted(files, d) ==
    IF files = <<>> THEN [textures |-> <<>>, err |-> "no PNG images found"]
    ELSE LET t == LoadLoop(files, d)
         IN  [textures |-> t,
              err |-> IF t = <<>> THEN "failed to load any textures" ELSE "nil"]

\* AnimationPlayer.LoadFrames on the names Glob returned
APLoadFrames(files, d) ==
    IF files = <<>> THEN [textures |-> <<>>, err |-> "no PNG images found"]
    ELSE LET t == LoadLoop(SortStrings(files), d)
         IN  [textures |-> t,
              err |-> IF t = <<>> THEN "failed to load any textures" ELSE "nil"]

Max(a, b) ==
    IF a >= b THEN a ELSE b

APSetScale(scale) ==
    IF scale < ScaleFloor THEN ScaleFloor ELSE scale

ScaleUp(scale) ==
    (scale * 11) \div 10

ScaleDownNoFloor(scale) ==
    (scale * 10) \div 11

\* ScaleDown: ap.scale = max(0.1, ap.scale/1.1)
ScaleDown(scale) ==
    Max(ScaleFloor, (scale * 10) \div 11)

\* an Update that steps past the last frame
UpdateNoWrap(n, frame, last, t) ==
    IF n = 0 THEN <<frame, last>>
    ELSE IF t - last >= DefaultFrameDelay THEN <<frame + 1, t>>
    ELSE <<frame, last>>

\* an Update that needs more than the frame interval to have passed
UpdateStrict(n, frame, last, t) ==
    IF n = 0 THEN <<frame, last>>
    ELSE IF t - last > DefaultFrameDelay THEN <<(frame + 1) % n, t>>
    ELSE <<frame, last>>

\* Update: <<currentFrame, lastFrameTime>> after one call at time t
Update(n, frame, last, t) ==
    IF n = 0 THEN <<frame, last>>
    ELSE IF t - last >= DefaultFrameDelay THEN <<(frame + 1) % n, t>>
    ELSE <<frame, last>>

\* ------------------------------------------------------------------ Init
Init ==
    /\ proc = "up"
    /\ ctxDone = FALSE
    /\ shutdownSet = {}
    /\ shutdownReturned = FALSE
    /\ activeWindows = {}
    /\ reapedAt = [w \in Ids |-> NoId]
    /\ lastRet = <<"none", "-">>
    /\ destroyed = {}
    /\ spawnRet = [w \in Ids |-> <<>>]
    /\ held = {}
    /\ lastPoll = [w \in Ids |-> 0]
    /\ refFrame = [w \in Ids |-> 0]
    /\ refLast = [w \in Ids |-> 0]
    /\ forced = [w \in Ids |-> 0]
    /\ dir = [f \in FileNames |-> "absent"]
    /\ frames = [w \in Ids |-> <<>>]
    /\ loadErr = [w \in Ids |-> "unset"]
    /\ upc = [a \in Actors |-> "idle"]
    /\ utime = [a \in Actors |-> 0]
    /\ muWriter = NoId
    /\ muReaders = {}
    /\ mop = [t \in MuThreads |-> "idle"]
    /\ mstep = [t \in MuThreads |-> 0]
    /\ mtarget = [t \in MuThreads |-> NoId]
    /\ mfound = [t \in MuThreads |-> FALSE]
    /\ apPc = "new"
    /\ apFiles = <<>>
    /\ apTextures = <<>>
    /\ apSizes = <<>>
    /\ apFrame = 0
    /\ apFrameTime = 0
    /\ apReleased = [f \in FileNames |-> 0]
    /\ apCleanups = 0
    /\ apLast = <<"none", 0>>
    /\ pc = [w \in Ids |-> "none"]
    /\ running = [w \in Ids |-> FALSE]
    /\ closeChan = [w \in Ids |-> FALSE]
    /\ doneChan = [w \in Ids |-> FALSE]
    /\ scaleChan = [w \in Ids |-> <<>>]
    /\ currentScale = [w \in Ids |-> DefaultScale]
    /\ lastSent = [w \in Ids |-> <<>>]
    /\ window = [w \in Ids |-> "nil"]
    /\ renderer = [w \in Ids |-> "nil"]
    /\ textures = [w \in Ids |-> 0]
    /\ freed = [w \in Ids |-> 0]
    /\ animScale = [w \in Ids |-> DefaultScale]
    /\ currentFrame = [w \in Ids |-> 0]
    /\ lastFrameTime = [w \in Ids |-> 0]
    /\ now = 0
    /\ renderContexts = {}
    /\ cpc = [c \in Callers |-> "idle"]
    /\ ctarget = [c \in Callers |-> NoId]
    /\ wpc = "idle"
    /\ wtarget = NoId
    /\ wthread = NoId
    /\ useAfterFree = FALSE
    /\ watchRet = "none"
    /\ scaleCalls = 0
    /\ keyPresses = 0

\* --------------------------------------------------- controller (app.go)
\* SpawnCharacter, lines 306-312: fresh id, NewCharacterWindow, insert.
SpawnCharacter(w) ==
    /\ proc = "up"
    /\ pc[w] = "none"
    /\ pc' = [pc EXCEPT ![w] = "created"]
    /\ activeWindows' = activeWindows \cup {w}
    /\ UNCHANGED <<muVars, apVars, raceVars, loadVars, dragVars, retVars, histVars, procVars, running, chanVars, currentScale, nativeVars,
                   animVars, renderContexts, callerVars, watchVars, budgetVars>>

\* SpawnCharacter line 314 / CharacterWindow.Start: go cw.runInOSThread()
Start(w) ==
    /\ proc = "up"
    /\ pc[w] = "created"
    /\ pc' = [pc EXCEPT ![w] = "launched"]
    /\ UNCHANGED <<muVars, apVars, raceVars, loadVars, dragVars, retVars, histVars, procVars, activeWindows, running, chanVars, currentScale,
                   nativeVars, animVars, renderContexts, callerVars, watchVars,
                   budgetVars>>

\* SpawnCharacter lines 299-304: the character directory does not exist; the
\* zero-value record is returned and nothing is created
SpawnNotFound ==
    /\ proc = "up"
    /\ lastRet' = <<"spawn", "zero">>
    /\ UNCHANGED <<muVars, apVars, raceVars, loadVars, dragVars, destroyed, spawnRet, histVars, procVars, activeWindows, pc,
                   running, chanVars, currentScale, nativeVars, animVars,
                   renderContexts, callerVars, watchVars, budgetVars>>

\* CharacterWindowInfo{}: empty id, not running, scale zero
ZeroInfo ==
    <<"", FALSE, 0>>

\* SpawnCharacter lines 316-323: after the 50ms sleep the record is built from
\* the id, IsRunning() and GetScale() as they read at that moment
SpawnReturn(w) ==
    /\ proc = "up"
    /\ pc[w] \notin {"none", "created"}
    /\ spawnRet[w] = <<>>
    /\ spawnRet' = [spawnRet EXCEPT ![w] = <<w, running[w], currentScale[w]>>]
    /\ lastRet' = <<"spawn", "record">>
    /\ UNCHANGED <<muVars, apVars, raceVars, loadVars, dragVars, destroyed, histVars, procVars, activeWindows, pc, running,
                   chanVars, currentScale, nativeVars, animVars, renderContexts,
                   callerVars, watchVars, budgetVars>>

\* a reaper that stops after the first dead entry it meets
ReapedSetFirstOnly(active, run) ==
    LET dead == {w \in active : ~run[w]}
    IN  IF dead = {} THEN {} ELSE {CHOOSE w \in dead : TRUE}

\* cleanupDeadWindows lines 278-283: the entries the range loop deletes
ReapedSet(active, run) ==
    {w \in active : ~run[w]}

\* cleanupDeadWindows: one ticker.C case, the whole critical section
cleanupDeadWindows ==
    /\ proc = "up"
    /\ ~ctxDone
    /\ activeWindows' = activeWindows \ ReapedSet(activeWindows, running)
    /\ reapedAt' = [w \in Ids |->
                      IF w \in ReapedSet(activeWindows, running)
                      THEN pc[w] ELSE reapedAt[w]]
    /\ UNCHANGED <<muVars, apVars, raceVars, loadVars, dragVars, retVars, procVars, pc, running, chanVars, currentScale, nativeVars,
                   animVars, renderContexts, callerVars, watchVars, budgetVars>>

\* the context handed to startup is cancelled by the host framework
CtxCancel ==
    /\ proc = "up"
    /\ ~ctxDone
    /\ ctxDone' = TRUE
    /\ UNCHANGED <<muVars, apVars, raceVars, loadVars, dragVars, retVars, histVars, proc, shutdownSet, shutdownReturned, activeWindows, pc,
                   running, chanVars, currentScale, nativeVars, animVars,
                   renderContexts, callerVars, watchVars, budgetVars>>

\* a destroy that skips the existence check
DestroyLookupNoCheck(c, w) ==
    /\ proc = "up"
    /\ cpc[c] = "idle"
    /\ cpc' = [cpc EXCEPT ![c] = "close_select"]
    /\ ctarget' = [ctarget EXCEPT ![c] = w]
    /\ UNCHANGED <<muVars, apVars, raceVars, loadVars, dragVars, retVars, histVars, procVars, activeWindows, pc, running,
                   chanVars, currentScale, nativeVars, animVars, renderContexts,
                   watchVars, budgetVars>>

\* DestroyCharacter lines 327-333: lookup under RLock
DestroyLookup(c, w) ==
    /\ proc = "up"
    /\ cpc[c] = "idle"
    /\ IF w \in activeWindows
       THEN /\ cpc' = [cpc EXCEPT ![c] = "close_select"]
            /\ ctarget' = [ctarget EXCEPT ![c] = w]
            /\ UNCHANGED lastRet
       ELSE \* lines 331-333: return false
            /\ lastRet' = <<"destroy", "false">>
            /\ UNCHANGED <<cpc, ctarget>>
    /\ UNCHANGED <<muVars, apVars, raceVars, loadVars, dragVars, destroyed, spawnRet, histVars, procVars, activeWindows, pc,
                   running, chanVars, currentScale, nativeVars, animVars,
                   renderContexts, watchVars, budgetVars>>

\* CharacterWindow.Close lines 153-155: the select on closeChan
CloseSelect(c) ==
    /\ proc = "up"
    /\ cpc[c] = "close_select"
    /\ cpc' = [cpc EXCEPT ![c] =
                 IF closeChan[ctarget[c]] THEN "delete" ELSE "close_default"]
    /\ UNCHANGED <<muVars, apVars, raceVars, loadVars, dragVars, retVars, histVars, procVars, activeWindows, pc, running, chanVars, currentScale,
                   nativeVars, animVars, renderContexts, ctarget, watchVars,
                   budgetVars>>

\* CharacterWindow.Close line 156: close(cw.closeChan) in the default case;
\* closing a closed channel panics and the panic ends the process
CloseDefault(c) ==
    /\ proc = "up"
    /\ cpc[c] = "close_default"
    /\ IF closeChan[ctarget[c]]
       THEN /\ proc' = "crashed"
            /\ UNCHANGED <<histVars, closeChan, cpc>>
       ELSE /\ closeChan' = [closeChan EXCEPT ![ctarget[c]] = TRUE]
            /\ cpc' = [cpc EXCEPT ![c] = "delete"]
            /\ UNCHANGED proc
    /\ UNCHANGED <<muVars, apVars, raceVars, loadVars, dragVars, retVars, histVars, ctxDone, shutdownSet, shutdownReturned, activeWindows, pc,
                   running, doneChan, scaleChan, lastSent, currentScale,
                   nativeVars, animVars, renderContexts, ctarget, watchVars,
                   budgetVars>>

\* a destroy that reports success without removing the entry
DestroyDeleteKeepsEntry(c) ==
    /\ proc = "up"
    /\ cpc[c] = "delete"
    /\ cpc' = [cpc EXCEPT ![c] = "idle"]
    /\ ctarget' = [ctarget EXCEPT ![c] = NoId]
    /\ lastRet' = <<"destroy", "true">>
    /\ destroyed' = destroyed \cup {ctarget[c]}
    /\ UNCHANGED <<muVars, apVars, raceVars, loadVars, dragVars, spawnRet, histVars, procVars, activeWindows, pc, running,
                   chanVars, currentScale, nativeVars, animVars, renderContexts,
                   watchVars, budgetVars>>

\* DestroyCharacter lines 337-341: delete under Lock, return true
DestroyDelete(c) ==
    /\ proc = "up"
    /\ cpc[c] = "delete"
    /\ activeWindows' = activeWindows \ {ctarget[c]}
    /\ cpc' = [cpc EXCEPT ![c] = "idle"]
    /\ ctarget' = [ctarget EXCEPT ![c] = NoId]
    \* line 341: return true
    /\ lastRet' = <<"destroy", "true">>
    /\ destroyed' = destroyed \cup {ctarget[c]}
    /\ UNCHANGED <<muVars, apVars, raceVars, loadVars, dragVars, spawnRet, histVars, procVars, pc, running, chanVars,
                   currentScale, nativeVars, animVars, renderContexts, watchVars,
                   budgetVars>>

\* DestroyAllCharacters as called by the OnShutdown hook (main.go 50-52):
\* Lock, Close every window of the map, replace the map, Unlock, return.
DestroyAllCharacters ==
    /\ proc = "up"
    /\ ~shutdownReturned
    /\ closeChan' = [w \in Ids |-> closeChan[w] \/ w \in activeWindows]
    /\ shutdownSet' = activeWindows
    /\ activeWindows' = {}
    /\ shutdownReturned' = TRUE
    /\ UNCHANGED <<muVars, apVars, raceVars, loadVars, dragVars, retVars, histVars, proc, ctxDone, pc, running, doneChan, scaleChan, lastSent,
                   currentScale, nativeVars, animVars, renderContexts,
                   callerVars, watchVars, budgetVars>>

\* main returns once wails.Run has returned: the process ends
ProcessExit ==
    /\ proc = "up"
    /\ shutdownReturned
    /\ proc' = "exit"
    /\ UNCHANGED <<muVars, apVars, raceVars, loadVars, dragVars, retVars, histVars, ctxDone, shutdownSet, shutdownReturned, activeWindows, pc,
                   running, chanVars, currentScale, nativeVars, animVars,
                   renderContexts, callerVars, watchVars, budgetVars>>

\* CharacterWindow.SetScale: non-blocking send, dropped when the buffer is full
SendScale(q, v) ==
    IF Len(q) < ScaleChanCap THEN Append(q, v) ELSE q

\* a SetScale whose send waits for room in the buffer
SetCharacterScaleBlocking(w, v, budget) ==
    /\ proc = "up"
    /\ scaleCalls < budget
    /\ scaleCalls' = scaleCalls + 1
    /\ IF w \in activeWindows
       THEN /\ Len(scaleChan[w]) < ScaleChanCap
            /\ scaleChan' = [scaleChan EXCEPT ![w] = Append(scaleChan[w], v)]
            /\ lastSent' = [lastSent EXCEPT ![w] = <<v>>]
            /\ lastRet' = <<"setScale", "true">>
       ELSE /\ lastRet' = <<"setScale", "false">>
            /\ UNCHANGED <<scaleChan, lastSent>>
    /\ UNCHANGED <<muVars, apVars, raceVars, loadVars, dragVars, destroyed, spawnRet, histVars, procVars, activeWindows, pc,
                   running, closeChan, doneChan, currentScale, nativeVars,
                   animVars, renderContexts, callerVars, watchVars, keyPresses>>

\* SetCharacterScale: lookup under RLock, then cw.SetScale(scale)
SetCharacterScale(w, v, budget) ==
    /\ proc = "up"
    /\ scaleCalls < budget
    /\ scaleCalls' = scaleCalls + 1
    /\ IF w \in activeWindows
       THEN /\ scaleChan' = [scaleChan EXCEPT ![w] = SendScale(scaleChan[w], v)]
            /\ lastSent' = [lastSent EXCEPT ![w] = <<v>>]
            /\ lastRet' = <<"setScale", "true">>
       ELSE \* lines 377-379: return false
            /\ lastRet' = <<"setScale", "false">>
            /\ UNCHANGED <<scaleChan, lastSent>>
    /\ UNCHANGED <<muVars, apVars, raceVars, loadVars, dragVars, destroyed, spawnRet, histVars, procVars, activeWindows, pc,
                   running, closeChan, doneChan, currentScale, nativeVars,
                   animVars, renderContexts, callerVars, watchVars, keyPresses>>

\* GetActiveWindows: the entries returned under RLock
GetActiveWindows ==
    {[id |-> w, isRunning |-> TRUE, scale |-> currentScale[w]] :
        w \in {x \in activeWindows : running[x]}}

\* ------------------------------------- RenderContext registry (part_001)
\* threads that are inside an access to the unsynchronised renderContexts map
MapWriters ==
    {w \in Ids : pc[w] \in {"registering", "unregistering"}}

MapReaders ==
    IF wpc = "lookup" THEN {wthread} ELSE {}

\* The Go runtime may or may not detect a racing map access; when it does it
\* ends the process ("fatal error: concurrent map ...").
MapAccessOutcome(self) ==
    IF (MapWriters \cup MapReaders) \ {self} # {} THEN {"up", "crashed"} ELSE {"up"}

\* a window thread is inside sdl.PollEvent while the watcher callback runs on it
InCallback(w) ==
    wpc # "idle" /\ wthread = w

Runnable(w) ==
    proc = "up" /\ ~InCallback(w)

\* ----------------------------- CharacterWindow.runInOSThread (part_002)
\* line 60: cw.running.Store(true)
ThreadBegin(w) ==
    /\ Runnable(w)
    /\ pc[w] = "launched"
    /\ running' = [running EXCEPT ![w] = TRUE]
    /\ pc' = [pc EXCEPT ![w] = "starting"]
    /\ UNCHANGED <<muVars, apVars, raceVars, loadVars, dragVars, retVars, histVars, procVars, activeWindows, chanVars, currentScale, nativeVars,
                   animVars, renderContexts, callerVars, watchVars, budgetVars>>

\* lines 68-73: sdl.CreateWindow; nil -> return
CreateWindow(w, ok) ==
    /\ Runnable(w)
    /\ pc[w] = "starting"
    /\ IF ok
       THEN /\ window' = [window EXCEPT ![w] = "live"]
            /\ pc' = [pc EXCEPT ![w] = "has_window"]
       ELSE /\ pc' = [pc EXCEPT ![w] = "d_running"]
            /\ UNCHANGED window
    /\ UNCHANGED <<muVars, apVars, raceVars, loadVars, dragVars, retVars, histVars, procVars, activeWindows, running, chanVars, currentScale,
                   renderer, textures, freed, animVars, renderContexts,
                   callerVars, watchVars, budgetVars>>

\* lines 79-84: sdl.CreateRenderer; nil -> return
CreateRenderer(w, ok) ==
    /\ Runnable(w)
    /\ pc[w] = "has_window"
    /\ IF ok
       THEN /\ renderer' = [renderer EXCEPT ![w] = "live"]
            /\ pc' = [pc EXCEPT ![w] = "has_renderer"]
       ELSE /\ pc' = [pc EXCEPT ![w] = "d_window"]
            /\ UNCHANGED renderer
    /\ UNCHANGED <<muVars, apVars, raceVars, loadVars, dragVars, retVars, histVars, procVars, activeWindows, running, chanVars, currentScale,
                   window, textures, freed, animVars, renderContexts,
                   callerVars, watchVars, budgetVars>>

\* a thread that goes on to register and loop after LoadFrames has failed
LoadFramesIgnoresError(w, n) ==
    /\ Runnable(w)
    /\ pc[w] = "has_renderer"
    /\ textures' = [textures EXCEPT ![w] = n]
    /\ pc' = [pc EXCEPT ![w] = "registering"]
    /\ UNCHANGED <<muVars, apVars, raceVars, loadVars, dragVars, retVars, histVars, procVars, activeWindows, running, chanVars, currentScale,
                   window, renderer, freed, animVars, renderContexts,
                   callerVars, watchVars, budgetVars>>

\* lines 88-97: NewAnimationPlayer and LoadFrames; n textures were created,
\* n = 0 is the error return; otherwise the thread enters RegisterRenderContext
LoadFrames(w, n) ==
    /\ Runnable(w)
    /\ pc[w] = "has_renderer"
    /\ textures' = [textures EXCEPT ![w] = n]
    /\ pc' = [pc EXCEPT ![w] = IF n = 0 THEN "d_renderer" ELSE "registering"]
    /\ UNCHANGED <<muVars, apVars, raceVars, loadVars, dragVars, retVars, histVars, procVars, activeWindows, running, chanVars, currentScale,
                   window, renderer, freed, animVars, renderContexts,
                   callerVars, watchVars, budgetVars>>

\* lines 88-97 with the content of the frames directory: LoadFrames globs,
\* sorts and loads; an error return goes to the deferred teardown
LoadFramesDir(w) ==
    /\ Runnable(w)
    /\ pc[w] = "has_renderer"
    /\ \E files \in Glob(dir) :
          LET r == APLoadFrames(files, dir)
          IN  /\ textures' = [textures EXCEPT ![w] = Len(r.textures)]
              /\ frames' = [frames EXCEPT ![w] = r.textures]
              /\ loadErr' = [loadErr EXCEPT ![w] = r.err]
              /\ pc' = [pc EXCEPT ![w] = IF r.err = "nil" THEN "registering"
                                                           ELSE "d_renderer"]
    /\ UNCHANGED <<raceVars, muVars, apVars, dir, dragVars, retVars, histVars, procVars, activeWindows, running, chanVars, currentScale,
                   window, renderer, freed, animVars, renderContexts,
                   callerVars, watchVars, budgetVars>>

\* a file appears in the frames directory before any window loads it
PlaceFile(f, o) ==
    /\ proc = "up"
    /\ dir[f] = "absent"
    /\ \A w \in Ids : loadErr[w] = "unset"
    /\ apPc = "new"
    /\ dir' = [dir EXCEPT ![f] = o]
    /\ UNCHANGED <<raceVars, muVars, apVars, frames, loadErr, dragVars, retVars, histVars, procVars, activeWindows, running, chanVars,
                   currentScale, nativeVars, pc, animVars, renderContexts,
                   callerVars, watchVars, budgetVars>>

\* RegisterRenderContext: renderContexts[windowID] = ctx, then line 103-108
RegisterRenderContext(w) ==
    /\ Runnable(w)
    /\ pc[w] = "registering"
    /\ proc' \in MapAccessOutcome(w)
    /\ renderContexts' = renderContexts \cup {w}
    /\ pc' = [pc EXCEPT ![w] = "loop"]
    /\ UNCHANGED <<muVars, apVars, raceVars, loadVars, dragVars, retVars, histVars, ctxDone, shutdownSet, shutdownReturned, activeWindows,
                   running, chanVars, currentScale, nativeVars, animVars,
                   callerVars, watchVars, budgetVars>>

\* a select without the closeChan case
SelectReadyNoClose(closed, q) ==
    IF Len(q) > 0 THEN {"scale"} ELSE {"default"}

\* lines 110-119: the cases of the select that can proceed; Go picks one of
\* them at random, and the default case only when there is none
SelectReady(closed, q) ==
    LET ready == (IF closed THEN {"close"} ELSE {}) \cup
                 (IF Len(q) > 0 THEN {"scale"} ELSE {})
    IN  IF ready = {} THEN {"default"} ELSE ready

\* lines 111-117: the state of the iteration after the select
\* st = [anim, cur, q, ret, keys]: player scale, published scale, channel,
\* whether the loop has returned, number of scale keys handled
AfterSelect(choice, st) ==
    IF choice = "close" THEN [st EXCEPT !.ret = TRUE]
    ELSE IF choice = "scale"
    THEN [st EXCEPT !.anim = APSetScale(Head(st.q)),
                    !.cur = Head(st.q),
                    !.q = Tail(st.q)]
    ELSE st

\* lines 121-139: one event taken from sdl.PollEvent
HandleEvent(ev, st) ==
    IF ev \in {"quit", "escape"} THEN [st EXCEPT !.ret = TRUE]
    ELSE IF ev = "up"
    THEN [st EXCEPT !.anim = ScaleUp(st.anim), !.cur = ScaleUp(st.anim),
                    !.keys = st.keys + 1]
    ELSE IF ev = "down"
    THEN [st EXCEPT !.anim = ScaleDown(st.anim), !.cur = ScaleDown(st.anim),
                    !.keys = st.keys + 1]
    ELSE st

RECURSIVE PollEvents(_, _)
PollEvents(evs, st) ==
    IF evs = <<>> \/ st.ret THEN st
    ELSE PollEvents(Tail(evs), HandleEvent(Head(evs), st))

\* the event sequences over a set of event types one iteration may find queued
EventSeqs(types) ==
    UNION {[1..n -> types] : n \in 0..MaxEvents}

\* lines 109-149: one iteration of the window loop.  A return starts the
\* deferred calls, the first of which is UnregisterRenderContext.
LoopIteration(w, choice, evs) ==
    /\ Runnable(w)
    /\ pc[w] = "loop"
    /\ w \notin held
    /\ choice \in SelectReady(closeChan[w], scaleChan[w])
    /\ LET st0 == [anim |-> animScale[w], cur |-> currentScale[w],
                   q |-> scaleChan[w], ret |-> FALSE, keys |-> 0]
           st1 == AfterSelect(choice, st0)
           st2 == IF st1.ret THEN st1 ELSE PollEvents(evs, st1)
           upd == Update(textures[w], currentFrame[w], lastFrameTime[w], now)
       IN  /\ keyPresses + st2.keys <= MaxKeyPresses
           /\ keyPresses' = keyPresses + st2.keys
           /\ animScale' = [animScale EXCEPT ![w] = st2.anim]
           /\ currentScale' = [currentScale EXCEPT ![w] = st2.cur]
           /\ scaleChan' = [scaleChan EXCEPT ![w] = st2.q]
           /\ lastSent' = [lastSent EXCEPT ![w] =
                             IF st2.keys > 0 THEN <<>> ELSE lastSent[w]]
           /\ IF st2.ret
              THEN /\ pc' = [pc EXCEPT ![w] = "unregistering"]
                   /\ UNCHANGED <<histVars, currentFrame, lastFrameTime,
                                  lastPoll>>
              ELSE /\ currentFrame' = [currentFrame EXCEPT ![w] = upd[1]]
                   /\ lastFrameTime' = [lastFrameTime EXCEPT ![w] = upd[2]]
                   /\ lastPoll' = [lastPoll EXCEPT ![w] = now]
                   /\ UNCHANGED pc
    /\ UNCHANGED <<muVars, apVars, raceVars, loadVars, held, refFrame, refLast, forced, retVars, histVars, procVars, activeWindows, running, closeChan, doneChan,
                   nativeVars, now, renderContexts, callerVars, watchVars,
                   scaleCalls>>

\* a teardown that leaves the registry entry behind
UnregisterRenderContextKeepsEntry(w) ==
    /\ Runnable(w)
    /\ pc[w] = "unregistering"
    /\ proc' \in MapAccessOutcome(w)
    /\ pc' = [pc EXCEPT ![w] = "d_cleanup"]
    /\ UNCHANGED <<muVars, apVars, raceVars, loadVars, dragVars, retVars, histVars, ctxDone, shutdownSet, shutdownReturned,
                   activeWindows, running, chanVars, currentScale, nativeVars,
                   animVars, renderContexts, callerVars, watchVars, budgetVars>>

\* deferred UnregisterRenderContext: delete(renderContexts, windowID)
UnregisterRenderContext(w) ==
    /\ Runnable(w)
    /\ pc[w] = "unregistering"
    /\ proc' \in MapAccessOutcome(w)
    /\ renderContexts' = renderContexts \ {w}
    /\ pc' = [pc EXCEPT ![w] = "d_cleanup"]
    /\ UNCHANGED <<muVars, apVars, raceVars, loadVars, dragVars, retVars, histVars, ctxDone, shutdownSet, shutdownReturned, activeWindows,
                   running, chanVars, currentScale, nativeVars, animVars,
                   callerVars, watchVars, budgetVars>>

\* a Cleanup that destroys no texture
CleanupLeak(w) ==
    /\ Runnable(w)
    /\ pc[w] = "d_cleanup"
    /\ pc' = [pc EXCEPT ![w] = "d_renderer"]
    /\ UNCHANGED <<muVars, apVars, raceVars, loadVars, dragVars, retVars, histVars, procVars, activeWindows, running, chanVars,
                   currentScale, nativeVars, animVars, renderContexts,
                   callerVars, watchVars, budgetVars>>

\* deferred animation.Cleanup (part_006 161-168)
Cleanup(w) ==
    /\ Runnable(w)
    /\ pc[w] = "d_cleanup"
    /\ freed' = [freed EXCEPT ![w] = freed[w] + textures[w]]
    /\ textures' = [textures EXCEPT ![w] = 0]
    /\ pc' = [pc EXCEPT ![w] = "d_renderer"]
    /\ UNCHANGED <<muVars, apVars, raceVars, loadVars, dragVars, retVars, histVars, procVars, activeWindows, running, chanVars, currentScale,
                   window, renderer, animVars, renderContexts, callerVars,
                   watchVars, budgetVars>>

\* deferred sdl.DestroyRenderer(renderer)
DestroyRenderer(w) ==
    /\ Runnable(w)
    /\ pc[w] = "d_renderer"
    /\ renderer' = [renderer EXCEPT ![w] = "destroyed"]
    /\ pc' = [pc EXCEPT ![w] = "d_window"]
    /\ UNCHANGED <<muVars, apVars, raceVars, loadVars, dragVars, retVars, histVars, procVars, activeWindows, running, chanVars, currentScale,
                   window, textures, freed, animVars, renderContexts,
                   callerVars, watchVars, budgetVars>>

\* a teardown that leaves the native window in place
DestroyWindowLeak(w) ==
    /\ Runnable(w)
    /\ pc[w] = "d_window"
    /\ pc' = [pc EXCEPT ![w] = "d_running"]
    /\ UNCHANGED <<muVars, apVars, raceVars, loadVars, dragVars, retVars, histVars, procVars, activeWindows, running, chanVars, currentScale,
                   nativeVars, animVars, renderContexts,
                   callerVars, watchVars, budgetVars>>

\* deferred sdl.DestroyWindow(window)
DestroyWindow(w) ==
    /\ Runnable(w)
    /\ pc[w] = "d_window"
    /\ window' = [window EXCEPT ![w] = "destroyed"]
    /\ pc' = [pc EXCEPT ![w] = "d_running"]
    /\ UNCHANGED <<muVars, apVars, raceVars, loadVars, dragVars, retVars, histVars, procVars, activeWindows, running, chanVars, currentScale,
                   renderer, textures, freed, animVars, renderContexts,
                   callerVars, watchVars, budgetVars>>

\* a thread that signals completion without clearing the running flag
StoreNotRunningSkipped(w) ==
    /\ Runnable(w)
    /\ pc[w] = "d_running"
    /\ pc' = [pc EXCEPT ![w] = "d_done"]
    /\ UNCHANGED <<muVars, apVars, raceVars, loadVars, dragVars, retVars, histVars, procVars, activeWindows, running, chanVars,
                   currentScale, nativeVars, animVars, renderContexts,
                   callerVars, watchVars, budgetVars>>

\* deferred cw.running.Store(false)
StoreNotRunning(w) ==
    /\ Runnable(w)
    /\ pc[w] = "d_running"
    /\ running' = [running EXCEPT ![w] = FALSE]
    /\ pc' = [pc EXCEPT ![w] = "d_done"]
    /\ UNCHANGED <<muVars, apVars, raceVars, loadVars, dragVars, retVars, histVars, procVars, activeWindows, chanVars, currentScale, nativeVars,
                   animVars, renderContexts, callerVars, watchVars, budgetVars>>

\* deferred close(cw.doneChan), then the thread ends
CloseDone(w) ==
    /\ Runnable(w)
    /\ pc[w] = "d_done"
    /\ doneChan' = [doneChan EXCEPT ![w] = TRUE]
    /\ pc' = [pc EXCEPT ![w] = "stopped"]
    /\ UNCHANGED <<muVars, apVars, raceVars, loadVars, dragVars, retVars, histVars, procVars, activeWindows, running, closeChan, scaleChan,
                   lastSent, currentScale, nativeVars, animVars, renderContexts,
                   callerVars, watchVars, budgetVars>>

\* Wait (lines 174-176): the receive from doneChan can return
Wait(w) ==
    doneChan[w]

\* IsRunning (lines 178-180)
IsRunning(w) ==
    running[w]

\* -------------------------------------- CreateEventWatcher (part_001)
\* a callback that stops the propagation of the events it does not handle
WatcherCallSwallows(t, w, et) ==
    /\ proc = "up"
    /\ wpc = "idle"
    /\ pc[t] = "loop"
    /\ window[w] # "nil"
    /\ IF et \in {"moved", "exposed", "resized"}
       THEN /\ wpc' = "lookup"
            /\ wtarget' = w
            /\ wthread' = t
            /\ UNCHANGED watchRet
       ELSE /\ watchRet' = "false"
            /\ UNCHANGED <<wpc, wtarget, wthread>>
    /\ UNCHANGED <<muVars, apVars, raceVars, loadVars, dragVars, retVars, histVars, procVars, activeWindows, pc, running, chanVars, currentScale,
                   nativeVars, animVars, renderContexts, callerVars,
                   useAfterFree, budgetVars>>

\* lines 47-56: the callback is entered on the thread t that pumps events,
\* for an event carrying window id w; a window event starts the map lookup
WatcherCall(t, w, et) ==
    /\ proc = "up"
    /\ wpc = "idle"
    /\ pc[t] = "loop"
    /\ window[w] # "nil"
    /\ IF et \in {"moved", "exposed", "resized"}
       THEN /\ wpc' = "lookup"
            /\ wtarget' = w
            /\ wthread' = t
            /\ UNCHANGED watchRet
       ELSE \* line 69: return true
            /\ watchRet' = "true"
            /\ UNCHANGED <<wpc, wtarget, wthread>>
    /\ UNCHANGED <<muVars, apVars, raceVars, loadVars, dragVars, retVars, histVars, procVars, activeWindows, pc, running, chanVars, currentScale,
                   nativeVars, animVars, renderContexts, callerVars,
                   useAfterFree, budgetVars>>

\* a callback that draws without checking that a context exists
WatcherLookupNoCheck ==
    /\ proc = "up"
    /\ wpc = "lookup"
    /\ proc' \in MapAccessOutcome(wthread)
    /\ wpc' = "draw"
    /\ UNCHANGED <<muVars, apVars, raceVars, loadVars, dragVars, retVars, histVars, ctxDone, shutdownSet,
                   shutdownReturned, activeWindows, pc, running, chanVars,
                   currentScale, nativeVars, animVars, renderContexts,
                   callerVars, wtarget, wthread, useAfterFree, watchRet,
                   budgetVars>>

\* line 57: ctx, exists := renderContexts[windowID]
WatcherLookup ==
    /\ proc = "up"
    /\ wpc = "lookup"
    /\ proc' \in MapAccessOutcome(wthread)
    /\ IF wtarget \in renderContexts
       THEN /\ wpc' = "draw"
            /\ UNCHANGED <<histVars, wtarget, wthread, watchRet>>
       ELSE \* line 69: return true
            /\ wpc' = "idle"
            /\ wtarget' = NoId
            /\ wthread' = NoId
            /\ watchRet' = IF proc' = "up" THEN "true" ELSE watchRet
    /\ UNCHANGED <<muVars, apVars, raceVars, loadVars, dragVars, retVars, histVars, ctxDone, shutdownSet, shutdownReturned, activeWindows, pc,
                   running, chanVars, currentScale, nativeVars, animVars,
                   renderContexts, callerVars, useAfterFree, budgetVars>>

\* the handles of a context can still be drawn with
Drawable(w) ==
    renderer[w] = "live" /\ window[w] = "live"

\* a forced render that also resets the scale of the player
WatcherDrawRescales ==
    /\ proc = "up"
    /\ wpc = "draw"
    /\ LET w == wtarget
           upd == Update(textures[w], currentFrame[w], lastFrameTime[w], now)
       IN  /\ currentFrame' = [currentFrame EXCEPT ![w] = upd[1]]
           /\ lastFrameTime' = [lastFrameTime EXCEPT ![w] = upd[2]]
           /\ animScale' = [animScale EXCEPT ![w] = ScaleFloor]
           /\ useAfterFree' = (useAfterFree \/ ~Drawable(w))
           /\ proc' \in (IF Drawable(w) THEN {"up"} ELSE {"up", "crashed"})
           /\ forced' = [forced EXCEPT ![w] =
                            IF w \in held /\ forced[w] < MaxForced
                            THEN forced[w] + 1 ELSE forced[w]]
    /\ wpc' = "idle"
    /\ wtarget' = NoId
    /\ wthread' = NoId
    /\ watchRet' = IF proc' = "up" THEN "true" ELSE watchRet
    /\ UNCHANGED <<muVars, apVars, raceVars, loadVars, held, lastPoll, refFrame, refLast, retVars, histVars, ctxDone, shutdownSet, shutdownReturned, activeWindows, pc,
                   running, chanVars, currentScale, nativeVars, now,
                   renderContexts, callerVars, budgetVars>>

\* lines 58-65: Update, clear, Render, present on the context found, return
\* true.  Drawing with a destroyed renderer or window is a use after free,
\* which may or may not end the process.
WatcherDraw ==
    /\ proc = "up"
    /\ wpc = "draw"
    /\ LET w == wtarget
           upd == Update(textures[w], currentFrame[w], lastFrameTime[w], now)
       IN  /\ currentFrame' = [currentFrame EXCEPT ![w] = upd[1]]
           /\ lastFrameTime' = [lastFrameTime EXCEPT ![w] = upd[2]]
           /\ useAfterFree' = (useAfterFree \/ ~Drawable(w))
           /\ proc' \in (IF Drawable(w) THEN {"up"} ELSE {"up", "crashed"})
           /\ forced' = [forced EXCEPT ![w] =
                            IF w \in held /\ forced[w] < MaxForced
                            THEN forced[w] + 1 ELSE forced[w]]
    /\ wpc' = "idle"
    /\ wtarget' = NoId
    /\ wthread' = NoId
    \* line 69: return true
    /\ watchRet' = IF proc' = "up" THEN "true" ELSE watchRet
    /\ UNCHANGED <<muVars, apVars, raceVars, loadVars, held, lastPoll, refFrame, refLast, retVars, histVars, ctxDone, shutdownSet, shutdownReturned, activeWindows, pc,
                   running, chanVars, currentScale, nativeVars, animScale, now,
                   renderContexts, callerVars, budgetVars>>

\* ------------------------------------ Update as a check and a later write
\* part_006 100-101 in the loop of window w: currentTime is read and compared
\* with lastFrameTime; when the interval has not elapsed (or there is no
\* texture) the iteration is over
RaceLoopCheck(w) ==
    /\ Runnable(w)
    /\ pc[w] = "loop"
    /\ w \notin held
    /\ upc["owner"] = "idle"
    /\ IF textures[w] > 0 /\ now - lastFrameTime[w] >= DefaultFrameDelay
       THEN /\ upc' = [upc EXCEPT !["owner"] = "checked"]
            /\ utime' = [utime EXCEPT !["owner"] = now]
            /\ UNCHANGED lastPoll
       ELSE /\ lastPoll' = [lastPoll EXCEPT ![w] = now]
            /\ UNCHANGED <<upc, utime>>
    /\ UNCHANGED <<muVars, apVars, loadVars, held, refFrame, refLast, forced, retVars,
                   histVars, procVars, activeWindows, pc, running, chanVars,
                   currentScale, nativeVars, animVars, renderContexts,
                   callerVars, watchVars, budgetVars>>

\* part_006 102-103 in the loop of window w: the frame index is advanced and
\* the time read before is stored
RaceLoopWrite(w) ==
    /\ Runnable(w)
    /\ pc[w] = "loop"
    /\ upc["owner"] = "checked"
    /\ currentFrame' = [currentFrame EXCEPT ![w] = (currentFrame[w] + 1) % textures[w]]
    /\ lastFrameTime' = [lastFrameTime EXCEPT ![w] = utime["owner"]]
    /\ upc' = [upc EXCEPT !["owner"] = "idle"]
    /\ lastPoll' = [lastPoll EXCEPT ![w] = now]
    /\ UNCHANGED <<utime, muVars, apVars, loadVars, held, refFrame, refLast, forced,
                   retVars, histVars, procVars, activeWindows, pc, running,
                   chanVars, currentScale, nativeVars, animScale, now,
                   renderContexts, callerVars, watchVars, budgetVars>>

\* part_001 59 and part_006 100-101 in the callback: the check of Update;
\* when it fails the callback draws (61-64) and returns true
RaceWatcherCheck ==
    /\ proc = "up"
    /\ wpc = "draw"
    /\ upc["watcher"] = "idle"
    /\ LET w == wtarget
       IN  IF textures[w] > 0 /\ now - lastFrameTime[w] >= DefaultFrameDelay
           THEN /\ upc' = [upc EXCEPT !["watcher"] = "checked"]
                /\ utime' = [utime EXCEPT !["watcher"] = now]
                /\ UNCHANGED <<proc, watchVars>>
           ELSE /\ useAfterFree' = (useAfterFree \/ ~Drawable(w))
                /\ proc' \in (IF Drawable(w) THEN {"up"} ELSE {"up", "crashed"})
                /\ wpc' = "idle"
                /\ wtarget' = NoId
                /\ wthread' = NoId
                /\ watchRet' = IF proc' = "up" THEN "true" ELSE watchRet
                /\ UNCHANGED <<upc, utime>>
    /\ UNCHANGED <<muVars, apVars, loadVars, dragVars, retVars, histVars, ctxDone,
                   shutdownSet, shutdownReturned, activeWindows, pc, running,
                   chanVars, currentScale, nativeVars, animVars, renderContexts,
                   callerVars, budgetVars>>

\* part_006 102-103 in the callback, then the draw and return true
RaceWatcherWrite ==
    /\ proc = "up"
    /\ wpc = "draw"
    /\ upc["watcher"] = "checked"
    /\ textures[wtarget] > 0
    /\ LET w == wtarget
       IN  /\ currentFrame' = [currentFrame EXCEPT ![w] = (currentFrame[w] + 1) % textures[w]]
           /\ lastFrameTime' = [lastFrameTime EXCEPT ![w] = utime["watcher"]]
           /\ useAfterFree' = (useAfterFree \/ ~Drawable(w))
           /\ proc' \in (IF Drawable(w) THEN {"up"} ELSE {"up", "crashed"})
    /\ upc' = [upc EXCEPT !["watcher"] = "idle"]
    /\ wpc' = "idle"
    /\ wtarget' = NoId
    /\ wthread' = NoId
    /\ watchRet' = IF proc' = "up" THEN "true" ELSE watchRet
    /\ UNCHANGED <<utime, muVars, apVars, loadVars, dragVars, retVars, histVars, ctxDone,
                   shutdownSet, shutdownReturned, activeWindows, pc, running,
                   chanVars, currentScale, nativeVars, animScale, now,
                   renderContexts, callerVars, budgetVars>>

\* ------------------------------------------------------ time and drags
\* d milliseconds pass.  Every loop that is not suspended has made its
\* iteration for the current time before (each iteration ends in the 16ms
\* DelayNS of line 148); the reference player of a window in its loop is
\* polled at the current time, suspended or not.
Tick(d) ==
    /\ proc = "up"
    /\ now + d <= MaxTime
    /\ \A w \in Ids :
          (pc[w] = "loop" /\ w \notin held) => lastPoll[w] = now
    /\ now' = now + d
    /\ LET ref == [w \in Ids |->
                     IF pc[w] = "loop"
                     THEN Update(textures[w], refFrame[w], refLast[w], now)
                     ELSE <<refFrame[w], refLast[w]>>]
       IN  /\ refFrame' = [w \in Ids |-> ref[w][1]]
           /\ refLast' = [w \in Ids |-> ref[w][2]]
    /\ UNCHANGED <<muVars, apVars, raceVars, loadVars, held, lastPoll, forced, retVars, histVars, procVars,
                   activeWindows, pc, running, chanVars, currentScale,
                   nativeVars, animScale, currentFrame, lastFrameTime,
                   renderContexts, callerVars, watchVars, budgetVars>>

\* the platform starts a drag of window w: PollEvent (line 121) does not
\* return to the loop until the drag ends
DragBegin(w) ==
    /\ Runnable(w)
    /\ pc[w] = "loop"
    /\ w \notin held
    /\ lastPoll[w] = now
    /\ held' = held \cup {w}
    /\ forced' = [forced EXCEPT ![w] = 0]
    /\ UNCHANGED <<muVars, apVars, raceVars, loadVars, lastPoll, refFrame, refLast, retVars, histVars, procVars,
                   activeWindows, pc, running, chanVars, currentScale,
                   nativeVars, animVars, renderContexts, callerVars, watchVars,
                   budgetVars>>

\* the drag ends and PollEvent returns
DragEnd(w) ==
    /\ Runnable(w)
    /\ w \in held
    /\ held' = held \ {w}
    /\ UNCHANGED <<muVars, apVars, raceVars, loadVars, lastPoll, refFrame, refLast, forced, retVars, histVars,
                   procVars, activeWindows, pc, running, chanVars, currentScale,
                   nativeVars, animVars, renderContexts, callerVars, watchVars,
                   budgetVars>>

\* ------------------------------------------------------- specifications
\* the steps of window thread w, with the platform events drawn from types
WindowStep(w, types) ==
    \/ ThreadBegin(w)
    \/ \E ok \in BOOLEAN : CreateWindow(w, ok)
    \/ \E ok \in BOOLEAN : CreateRenderer(w, ok)
    \/ \E n \in 0..MaxFrames : LoadFrames(w, n)
    \/ RegisterRenderContext(w)
    \/ \E choice \in {"close", "scale", "default"}, evs \in EventSeqs(types) :
          LoopIteration(w, choice, evs)
    \/ UnregisterRenderContext(w)
    \/ Cleanup(w)
    \/ DestroyRenderer(w)
    \/ DestroyWindow(w)
    \/ StoreNotRunning(w)
    \/ CloseDone(w)

\* Spec: controller registry, reaper, destroy, shutdown and window lifecycle
Next ==
    \/ \E w \in Ids : SpawnCharacter(w)
    \/ \E w \in Ids : Start(w)
    \/ cleanupDeadWindows
    \/ \E w \in Ids : DestroyLookup("c1", w)
    \/ CloseSelect("c1")
    \/ CloseDefault("c1")
    \/ DestroyDelete("c1")
    \/ DestroyAllCharacters
    \/ ProcessExit
    \/ \E w \in Ids : WindowStep(w, ExitEventTypes)

Spec ==
    Init /\ [][Next]_vars

\* SpecReap: windows that exit on their own and the reaper, until the context
\* is cancelled; no destroy call is made
NextReap ==
    \/ \E w \in Ids : SpawnCharacter(w)
    \/ \E w \in Ids : Start(w)
    \/ cleanupDeadWindows
    \/ CtxCancel
    \/ \E w \in Ids : WindowStep(w, ExitEventTypes)

SpecReap ==
    Init /\ [][NextReap]_vars

\* FairReap: the 500ms ticker keeps firing
FairReap ==
    SpecReap /\ WF_vars(cleanupDeadWindows)

\* SpecClose: one window closed by concurrent callers and by shutdown, with
\* scale commands pending
NextClose ==
    \/ SpawnCharacter("w1")
    \/ Start("w1")
    \/ \E c \in Callers : DestroyLookup(c, "w1")
    \/ \E c \in Callers : CloseSelect(c)
    \/ \E c \in Callers : CloseDefault(c)
    \/ \E c \in Callers : DestroyDelete(c)
    \/ DestroyAllCharacters
    \/ ProcessExit
    \/ \E v \in ScaleInputs : SetCharacterScale("w1", v, MaxScaleCalls)
    \/ WindowStep("w1", ExitEventTypes)

SpecClose ==
    Init /\ [][NextClose]_vars

\* FairClose: the window thread keeps being scheduled; fairness covers the
\* thread's own steps only, no platform event is ever owed to it
FairClose ==
    SpecClose /\ WF_vars(WindowStep("w1", {}))

\* SpecDestroy: SpecClose with the reaper ticking as well
NextDestroy ==
    \/ NextClose
    \/ cleanupDeadWindows

SpecDestroy ==
    Init /\ [][NextDestroy]_vars

\* SpecSpawn: spawn calls with their return values, windows that may fail to
\* start, and the reaper
NextSpawn ==
    \/ SpawnNotFound
    \/ \E w \in Ids : SpawnCharacter(w)
    \/ \E w \in Ids : Start(w)
    \/ \E w \in Ids : SpawnReturn(w)
    \/ cleanupDeadWindows
    \/ \E w \in Ids : WindowStep(w, ExitEventTypes)

SpecSpawn ==
    Init /\ [][NextSpawn]_vars

\* SpecScale: one window with scale commands and scale keys
NextScale ==
    \/ SpawnCharacter("w1")
    \/ Start("w1")
    \/ \E v \in ScaleInputs : SetCharacterScale("w1", v, MaxScaleCalls)
    \/ WindowStep("w1", EventTypes)

SpecScale ==
    Init /\ [][NextScale]_vars

\* ------------------------------------- App.mu and App.activeWindows (app.go)
\* a DestroyCharacter that looks the id up without taking the read lock
MuProgramUnlockedLookup(op) ==
    CASE op = "spawn" -> <<"Lock", "write", "Unlock", "Start">>
      [] op = "destroy" -> <<"read", "IfMissingReturn", "Close",
                             "Lock", "write", "Unlock">>
      [] op = "setScale" -> <<"RLock", "read", "RUnlock", "IfMissingReturn", "Send">>
      [] op = "list" -> <<"RLock", "read", "RUnlock">>
      [] op = "destroyAll" -> <<"Lock", "read", "write", "Unlock">>
      [] op = "reap" -> <<"Lock", "read", "write", "Unlock">>

\* the steps of each operation on the map, in program order:
\* SpawnCharacter 310-314, DestroyCharacter 327-341, SetCharacterScale
\* 373-382, GetActiveWindows 345-359, DestroyAllCharacters 363-369 (the
\* deferred unlock runs last), cleanupDeadWindows 277-284
MuProgram(op) ==
    CASE op = "spawn" -> <<"Lock", "write", "Unlock", "Start">>
      [] op = "destroy" -> <<"RLock", "read", "RUnlock", "IfMissingReturn", "Close",
                             "Lock", "write", "Unlock">>
      [] op = "setScale" -> <<"RLock", "read", "RUnlock", "IfMissingReturn", "Send">>
      [] op = "list" -> <<"RLock", "read", "RUnlock">>
      [] op = "destroyAll" -> <<"Lock", "read", "write", "Unlock">>
      [] op = "reap" -> <<"Lock", "read", "write", "Unlock">>

CallerOps ==
    {"spawn", "destroy", "setScale", "list", "destroyAll"}

\* operations that take no window id
UntargetedOps ==
    {"list", "destroyAll", "reap"}

\* the step a goroutine will take next, "none" outside an operation
Pending(t) ==
    IF mop[t] = "idle" THEN "none" ELSE MuProgram(mop[t])[mstep[t]]

\* mstep and mop after the pending step, or after a return
Advance(t, return) ==
    IF return \/ mstep[t] = Len(MuProgram(mop[t]))
    THEN /\ mop' = [mop EXCEPT ![t] = "idle"]
         /\ mstep' = [mstep EXCEPT ![t] = 0]
    ELSE /\ mstep' = [mstep EXCEPT ![t] = mstep[t] + 1]
         /\ UNCHANGED mop

\* a controller method is called, or the reaper's ticker fires; a spawn makes
\* a new CharacterWindow under a fresh id (app.go 306-308)
MuBegin(t, op, w) ==
    /\ proc = "up"
    /\ mop[t] = "idle"
    /\ IF t = "reaper" THEN op = "reap" /\ ~ctxDone ELSE op \in CallerOps
    /\ op \in UntargetedOps => w = NoId
    /\ op \notin UntargetedOps => w \in Ids
    /\ op = "spawn" => pc[w] = "none"
    /\ op = "setScale" => scaleCalls < MaxScaleCalls
    /\ mop' = [mop EXCEPT ![t] = op]
    /\ mstep' = [mstep EXCEPT ![t] = 1]
    /\ mtarget' = [mtarget EXCEPT ![t] = w]
    /\ mfound' = [mfound EXCEPT ![t] = FALSE]
    /\ pc' = IF op = "spawn" THEN [pc EXCEPT ![w] = "created"] ELSE pc
    /\ scaleCalls' = IF op = "setScale" THEN scaleCalls + 1 ELSE scaleCalls
    /\ UNCHANGED <<muWriter, muReaders, apVars, raceVars, loadVars, dragVars, retVars, histVars,
                   procVars, activeWindows, running, chanVars, currentScale,
                   nativeVars, animVars, renderContexts, callerVars, watchVars,
                   keyPresses>>

\* a.mu.Lock(): waits until nobody holds the lock
MuLock(t) ==
    /\ proc = "up"
    /\ Pending(t) = "Lock"
    /\ muWriter = NoId
    /\ muReaders = {}
    /\ muWriter' = t
    /\ Advance(t, FALSE)
    /\ UNCHANGED <<muReaders, mtarget, mfound, apVars, raceVars, loadVars, dragVars, retVars,
                   histVars, procVars, activeWindows, pc, running, chanVars,
                   currentScale, nativeVars, animVars, renderContexts,
                   callerVars, watchVars, budgetVars>>

\* a.mu.Unlock()
MuUnlock(t) ==
    /\ proc = "up"
    /\ Pending(t) = "Unlock"
    /\ muWriter' = IF muWriter = t THEN NoId ELSE muWriter
    /\ Advance(t, FALSE)
    /\ UNCHANGED <<muReaders, mtarget, mfound, apVars, raceVars, loadVars, dragVars, retVars,
                   histVars, procVars, activeWindows, pc, running, chanVars,
                   currentScale, nativeVars, animVars, renderContexts,
                   callerVars, watchVars, budgetVars>>

\* a.mu.RLock(): waits until nobody holds the lock for writing
MuRLock(t) ==
    /\ proc = "up"
    /\ Pending(t) = "RLock"
    /\ muWriter = NoId
    /\ muReaders' = muReaders \cup {t}
    /\ Advance(t, FALSE)
    /\ UNCHANGED <<muWriter, mtarget, mfound, apVars, raceVars, loadVars, dragVars, retVars,
                   histVars, procVars, activeWindows, pc, running, chanVars,
                   currentScale, nativeVars, animVars, renderContexts,
                   callerVars, watchVars, budgetVars>>

\* a.mu.RUnlock()
MuRUnlock(t) ==
    /\ proc = "up"
    /\ Pending(t) = "RUnlock"
    /\ muReaders' = muReaders \ {t}
    /\ Advance(t, FALSE)
    /\ UNCHANGED <<muWriter, mtarget, mfound, apVars, raceVars, loadVars, dragVars, retVars,
                   histVars, procVars, activeWindows, pc, running, chanVars,
                   currentScale, nativeVars, animVars, renderContexts,
                   callerVars, watchVars, budgetVars>>

\* a read of the map: the lookup a.activeWindows[windowId] or a range over it
MapRead(t) ==
    /\ proc = "up"
    /\ Pending(t) = "read"
    /\ mfound' = [mfound EXCEPT ![t] = mtarget[t] \in activeWindows]
    /\ Advance(t, FALSE)
    /\ UNCHANGED <<muWriter, muReaders, mtarget, apVars, raceVars, loadVars, dragVars, retVars,
                   histVars, procVars, activeWindows, pc, running, chanVars,
                   currentScale, nativeVars, animVars, renderContexts,
                   callerVars, watchVars, budgetVars>>

\* a mutation of the map: the insert of spawn, the delete of destroy, the
\* deletes of the reaper, the Close of every window and the fresh map of
\* DestroyAllCharacters
MapWrite(t) ==
    /\ proc = "up"
    /\ Pending(t) = "write"
    /\ activeWindows' =
          CASE mop[t] = "spawn" -> activeWindows \cup {mtarget[t]}
            [] mop[t] = "destroy" -> activeWindows \ {mtarget[t]}
            [] mop[t] = "destroyAll" -> {}
            [] mop[t] = "reap" -> activeWindows \ ReapedSet(activeWindows, running)
    /\ closeChan' = IF mop[t] = "destroyAll"
                    THEN [w \in Ids |-> closeChan[w] \/ w \in activeWindows]
                    ELSE closeChan
    /\ Advance(t, FALSE)
    /\ UNCHANGED <<muWriter, muReaders, mtarget, mfound, apVars, raceVars, loadVars, dragVars,
                   retVars, histVars, procVars, pc, running, doneChan, scaleChan,
                   lastSent, currentScale, nativeVars, animVars, renderContexts,
                   callerVars, watchVars, budgetVars>>

\* if !exists { return false }
MuReturnIfMissing(t) ==
    /\ proc = "up"
    /\ Pending(t) = "IfMissingReturn"
    /\ Advance(t, ~mfound[t])
    /\ UNCHANGED <<muWriter, muReaders, mtarget, mfound, apVars, raceVars, loadVars, dragVars,
                   retVars, histVars, procVars, activeWindows, pc, running,
                   chanVars, currentScale, nativeVars, animVars, renderContexts,
                   callerVars, watchVars, budgetVars>>

\* charWindow.Close() between the two critical sections of DestroyCharacter
MuClose(t) ==
    /\ proc = "up"
    /\ Pending(t) = "Close"
    /\ closeChan' = [closeChan EXCEPT ![mtarget[t]] = TRUE]
    /\ Advance(t, FALSE)
    /\ UNCHANGED <<muWriter, muReaders, mtarget, mfound, apVars, raceVars, loadVars, dragVars,
                   retVars, histVars, procVars, activeWindows, pc, running,
                   doneChan, scaleChan, lastSent, currentScale, nativeVars,
                   animVars, renderContexts, callerVars, watchVars, budgetVars>>

\* charWindow.Start() after the insert of SpawnCharacter
MuStart(t) ==
    /\ proc = "up"
    /\ Pending(t) = "Start"
    /\ pc' = [pc EXCEPT ![mtarget[t]] = "launched"]
    /\ Advance(t, FALSE)
    /\ UNCHANGED <<muWriter, muReaders, mtarget, mfound, apVars, raceVars, loadVars, dragVars,
                   retVars, histVars, procVars, activeWindows, running,
                   chanVars, currentScale, nativeVars, animVars, renderContexts,
                   callerVars, watchVars, budgetVars>>

\* charWindow.SetScale(scale) after the lookup of SetCharacterScale: a
\* non-blocking send
MuSend(t) ==
    /\ proc = "up"
    /\ Pending(t) = "Send"
    /\ \E v \in SignalInputs :
          /\ scaleChan' = [scaleChan EXCEPT ![mtarget[t]] =
                             IF Len(@) < ScaleChanCap THEN Append(@, v) ELSE @]
          /\ lastSent' = [lastSent EXCEPT ![mtarget[t]] = <<v>>]
    /\ Advance(t, FALSE)
    /\ UNCHANGED <<muWriter, muReaders, mtarget, mfound, apVars, raceVars, loadVars, dragVars,
                   retVars, histVars, procVars, activeWindows, pc, running,
                   closeChan, doneChan, currentScale, nativeVars,
                   animVars, renderContexts, callerVars, watchVars, budgetVars>>

\* SpecLock: two callers and the reaper working on the map under App.mu
NextLock ==
    \/ \E t \in MuThreads, op \in CallerOps \cup {"reap"}, w \in Ids \cup {NoId} :
          MuBegin(t, op, w)
    \/ \E t \in MuThreads : MuLock(t)
    \/ \E t \in MuThreads : MuUnlock(t)
    \/ \E t \in MuThreads : MuRLock(t)
    \/ \E t \in MuThreads : MuRUnlock(t)
    \/ \E t \in MuThreads : MapRead(t)
    \/ \E t \in MuThreads : MapWrite(t)
    \/ \E t \in MuThreads : MuReturnIfMissing(t)
    \/ \E t \in MuThreads : MuClose(t)
    \/ \E t \in MuThreads : MuStart(t)
    \/ \E t \in MuThreads : MuSend(t)

SpecLock ==
    Init /\ [][NextLock]_vars

\* --------------------------------------------- an AnimationPlayer on its own
\* LoadFrames up to sort.Strings: nothing found is the error return
PlayerLoadBegin ==
    /\ proc = "up"
    /\ apPc = "new"
    /\ \E files \in Glob(dir) :
          IF files = <<>>
          THEN apPc' = "failed" /\ apFiles' = <<>>
          ELSE apPc' = "loading" /\ apFiles' = SortStrings(files)
    /\ UNCHANGED <<apTextures, apSizes, apFrame, apFrameTime, apReleased,
                   apCleanups, apLast, muVars, raceVars, loadVars, dragVars, retVars, histVars,
                   procVars, activeWindows, running, chanVars, currentScale,
                   nativeVars, pc, animVars, renderContexts, callerVars,
                   watchVars, budgetVars>>

\* one iteration of the loop over the sorted files
PlayerLoadFile ==
    /\ proc = "up"
    /\ apPc = "loading"
    /\ apFiles # <<>>
    /\ LET r == LoadIteration(Head(apFiles), dir, apTextures, apSizes)
       IN  /\ apTextures' = r.textures
           /\ apSizes' = r.sizes
    /\ apFiles' = Tail(apFiles)
    /\ UNCHANGED <<apPc, apFrame, apFrameTime, apReleased,
                   apCleanups, apLast, muVars, raceVars, loadVars, dragVars, retVars, histVars,
                   procVars, activeWindows, running, chanVars, currentScale,
                   nativeVars, pc, animVars, renderContexts, callerVars,
                   watchVars, budgetVars>>

\* after the loop: no texture is the error return
PlayerLoadEnd ==
    /\ proc = "up"
    /\ apPc = "loading"
    /\ apFiles = <<>>
    /\ apPc' = IF apTextures = <<>> THEN "failed" ELSE "ready"
    /\ UNCHANGED <<apFiles, apTextures, apSizes, apFrame, apFrameTime, apReleased,
                   apCleanups, apLast, muVars, raceVars, loadVars, dragVars, retVars, histVars,
                   procVars, activeWindows, running, chanVars, currentScale,
                   nativeVars, pc, animVars, renderContexts, callerVars,
                   watchVars, budgetVars>>

\* a call of Update; the effect recorded is 1 iff the frame or the time changed
PlayerUpdate ==
    /\ proc = "up"
    /\ apPc \in {"ready", "failed"}
    /\ LET u == Update(Len(apTextures), apFrame, apFrameTime, now)
       IN  /\ apFrame' = u[1]
           /\ apFrameTime' = u[2]
           /\ apLast' = <<"update", IF u = <<apFrame, apFrameTime>> THEN 0 ELSE 1>>
    /\ UNCHANGED <<apPc, apFiles, apTextures, apSizes, apReleased,
                   apCleanups, muVars, raceVars, loadVars, dragVars, retVars, histVars,
                   procVars, activeWindows, running, chanVars, currentScale,
                   nativeVars, pc, animVars, renderContexts, callerVars,
                   watchVars, budgetVars>>

\* a call of Render; the effect recorded is the number of textures drawn
PlayerRender ==
    /\ proc = "up"
    /\ apPc \in {"ready", "failed"}
    /\ apLast' = <<"render", Len(APRender(apTextures, apSizes, apFrame))>>
    /\ UNCHANGED <<apPc, apFiles, apTextures, apSizes, apFrame, apFrameTime,
                   apReleased, apCleanups, muVars, raceVars, loadVars, dragVars, retVars, histVars,
                   procVars, activeWindows, running, chanVars, currentScale,
                   nativeVars, pc, animVars, renderContexts, callerVars,
                   watchVars, budgetVars>>

\* a call of Cleanup; the effect recorded is the number of textures destroyed
PlayerCleanup ==
    /\ proc = "up"
    /\ apPc \in {"ready", "failed"}
    /\ apCleanups < MaxCleanups
    /\ LET r == APCleanup(apTextures, apSizes, apReleased)
       IN  /\ apTextures' = r.textures
           /\ apSizes' = r.sizes
           /\ apReleased' = r.released
    /\ apCleanups' = apCleanups + 1
    /\ apLast' = <<"cleanup", Len(apTextures)>>
    /\ UNCHANGED <<apPc, apFiles, apFrame, apFrameTime,
                   muVars, raceVars, loadVars, dragVars, retVars, histVars,
                   procVars, activeWindows, running, chanVars, currentScale,
                   nativeVars, pc, animVars, renderContexts, callerVars,
                   watchVars, budgetVars>>

\* SpecPlayer: one AnimationPlayer loading a directory of any content and
\* then updated, rendered and cleaned up in any order while time passes
NextPlayer ==
    \/ \E f \in FileNames, o \in FileOutcomes : PlaceFile(f, o)
    \/ PlayerLoadBegin
    \/ PlayerLoadFile
    \/ PlayerLoadEnd
    \/ PlayerUpdate
    \/ PlayerRender
    \/ PlayerCleanup
    \/ Tick(DefaultFrameDelay)

SpecPlayer ==
    Init /\ [][NextPlayer]_vars

\* the steps of a window thread that loads its frames from the directory
LoadStep(w) ==
    \/ ThreadBegin(w)
    \/ CreateWindow(w, TRUE)
    \/ CreateRenderer(w, TRUE)
    \/ LoadFramesDir(w)
    \/ RegisterRenderContext(w)
    \/ \E evs \in EventSeqs({"escape", "other"}) :
          LoopIteration(w, "default", evs)
    \/ UnregisterRenderContext(w)
    \/ Cleanup(w)
    \/ DestroyRenderer(w)
    \/ DestroyWindow(w)
    \/ StoreNotRunning(w)
    \/ CloseDone(w)

\* SpecLoad: one window loading a frames directory of any content
NextLoad ==
    \/ SpawnCharacter("w1")
    \/ Start("w1")
    \/ \E f \in FileNames, o \in FileOutcomes : PlaceFile(f, o)
    \/ LoadStep("w1")

SpecLoad ==
    Init /\ [][NextLoad]_vars

\* the callback is entered from the event pump of thread t, which is not
\* inside an Update of its own then
RaceWatcherCall(t, et) ==
    /\ t = "w1" => upc["owner"] = "idle"
    /\ WatcherCall(t, "w1", et)

\* SpecRace: the player of window w1 updated by the loop of w1 and by the
\* callback, which runs on the thread of w1 or of w2, each Update being a
\* check followed by a write
NextRace ==
    \/ \E w \in Ids : SpawnCharacter(w)
    \/ \E w \in Ids : Start(w)
    \/ \E w \in Ids : ThreadBegin(w)
    \/ \E w \in Ids : CreateWindow(w, TRUE)
    \/ \E w \in Ids : CreateRenderer(w, TRUE)
    \/ \E w \in Ids : LoadFrames(w, MaxAnimFrames - 1)
    \/ \E w \in Ids : RegisterRenderContext(w)
    \/ LoopIteration("w2", "default", <<>>)
    \/ \E t \in Ids, et \in WatchEventTypes : RaceWatcherCall(t, et)
    \/ WatcherLookup
    \/ RaceWatcherCheck
    \/ RaceWatcherWrite
    \/ RaceLoopCheck("w1")
    \/ RaceLoopWrite("w1")
    \/ Tick(DefaultFrameDelay)

SpecRace ==
    Init /\ [][NextRace]_vars

\* SpecFloor: one window with scale commands of any sign and scale keys
NextFloor ==
    \/ SpawnCharacter("w1")
    \/ Start("w1")
    \/ \E v \in FloorInputs : SetCharacterScale("w1", v, MaxScaleCalls)
    \/ WindowStep("w1", EventTypes)

SpecFloor ==
    Init /\ [][NextFloor]_vars

\* SpecBurst: one window receiving bursts of scale commands
NextBurst ==
    \/ SpawnCharacter("w1")
    \/ Start("w1")
    \/ \E v \in BurstInputs : SetCharacterScale("w1", v, MaxBurst)
    \/ WindowStep("w1", ExitEventTypes)

SpecBurst ==
    Init /\ [][NextBurst]_vars

\* SpecSignals: one window receiving bursts of scale commands and a destroy
\* call, in every state of its thread
NextSignals ==
    \/ SpawnCharacter("w1")
    \/ Start("w1")
    \/ \E v \in SignalInputs : SetCharacterScale("w1", v, MaxBurst)
    \/ WindowStep("w1", ExitEventTypes)
    \/ DestroyLookup("c1", "w1")
    \/ CloseSelect("c1")
    \/ CloseDefault("c1")
    \/ DestroyDelete("c1")

SpecSignals ==
    Init /\ [][NextSignals]_vars

\* the steps of window thread w with up to MaxAnimFrames frames and no
\* creation failure
AnimStep(w) ==
    \/ ThreadBegin(w)
    \/ CreateWindow(w, TRUE)
    \/ CreateRenderer(w, TRUE)
    \/ \E n \in 0..MaxAnimFrames : LoadFrames(w, n)
    \/ RegisterRenderContext(w)
    \/ \E evs \in EventSeqs({"escape", "other"}) :
          LoopIteration(w, "default", evs)
    \/ UnregisterRenderContext(w)
    \/ Cleanup(w)
    \/ DestroyRenderer(w)
    \/ DestroyWindow(w)
    \/ StoreNotRunning(w)
    \/ CloseDone(w)

\* SpecAnim: the animation of window w1 under its loop and under the event
\* watcher, which runs on the thread of w1 or of w2, while time passes
NextAnim ==
    \/ \E w \in Ids : SpawnCharacter(w)
    \/ \E w \in Ids : Start(w)
    \/ AnimStep("w1")
    \/ WindowStep("w2", {})
    \/ \E t \in Ids, et \in WatchEventTypes : WatcherCall(t, "w1", et)
    \/ WatcherLookup
    \/ WatcherDraw
    \/ \E d \in TickSteps : Tick(d)

SpecAnim ==
    Init /\ [][NextAnim]_vars

\* SpecDrag: one window whose loop is suspended by platform drags while the
\* event watcher renders it from inside the suspended PollEvent
NextDrag ==
    \/ SpawnCharacter("w1")
    \/ Start("w1")
    \/ AnimStep("w1")
    \/ \E et \in WatchEventTypes : WatcherCall("w1", "w1", et)
    \/ WatcherLookup
    \/ WatcherDraw
    \/ \E d \in TickSteps : Tick(d)
    \/ DragBegin("w1")
    \/ DragEnd("w1")

SpecDrag ==
    Init /\ [][NextDrag]_vars

\* SpecWatch: window threads and the event watcher on the shared registry
NextWatch ==
    \/ \E w \in Ids : SpawnCharacter(w)
    \/ \E w \in Ids : Start(w)
    \/ \E t \in Ids, w \in Ids, et \in WatchEventTypes : WatcherCall(t, w, et)
    \/ WatcherLookup
    \/ WatcherDraw
    \/ \E w \in Ids : WindowStep(w, ExitEventTypes)

SpecWatch ==
    Init /\ [][NextWatch]_vars

\* ------------------------------------------------------------- claims
\* C1: concurrent Close() calls on one window never panic: the close channel
\* is closed exactly once and the process does not crash on a double close.
C1_ConcurrentCloseNeverPanics ==
    proc # "crashed"

\* C2: once the shutdown hook (DestroyAllCharacters) has returned, every window
\* that was in the registry has reached Stopped (completion signal fired).
C2_ShutdownWaitsForWindows ==
    shutdownReturned => \A w \in shutdownSet : pc[w] = "stopped" /\ doneChan[w]

\* C3: for a Running window with no scale update pending and no later scale
\* input, GetScale returns the last value handed to SetScale, clamped.
C3_LatestScaleWins ==
    \A w \in Ids :
        (pc[w] = "loop" /\ scaleChan[w] = <<>> /\ lastSent[w] # <<>>)
            => currentScale[w] = APSetScale(lastSent[w][1])

\* C4: the scale reported by GetScale and by GetActiveWindows is never below
\* the floor 0.1.
C4_ReportedScaleAtLeastFloor ==
    /\ \A w \in Ids : currentScale[w] >= ScaleFloor
    /\ \A e \in GetActiveWindows : e.scale >= ScaleFloor

\* C5: once Close has been called on a window whose thread was launched, in
\* whatever state and with whatever scale updates pending, the window reaches
\* Stopped, as long as its thread keeps being scheduled (the process lives).
C5_CloseLeadsToStopped ==
    \A w \in Ids :
        (closeChan[w] /\ pc[w] \notin {"none", "created"})
            ~> (pc[w] = "stopped" \/ proc # "up")

\* a closed window stopped by the close signal while scale updates were pending
C5_Witness ==
    /\ proc = "up"
    /\ closeChan["w1"]
    /\ pc["w1"] = "stopped"
    /\ doneChan["w1"]
    /\ renderer["w1"] = "destroyed"
    /\ scaleChan["w1"] # <<>>

\* C6: the event watcher never draws with a renderer or window that the
\* owning thread has already destroyed.
C6_WatcherNeverDrawsReleased ==
    ~useAfterFree

\* C7: accesses to the renderContexts map are mutually exclusive: no two
\* threads register/unregister at once, and none does during a watcher lookup.
C7_RegistryAccessExclusive ==
    /\ Cardinality(MapWriters) <= 1
    /\ MapWriters # {} => MapReaders = {}

\* a caller goroutine is inside DestroyCharacter(w)
DestroyCalled(w) ==
    \E c \in Callers : ctarget[c] = w

\* C8: every Running window on which neither destroy nor shutdown was called
\* is in the registry and is returned by GetActiveWindows with isRunning.
C8_RunningIsListed ==
    \A w \in Ids :
        (pc[w] = "loop" /\ ~closeChan[w] /\ ~DestroyCalled(w) /\ ~shutdownReturned)
            => /\ w \in activeWindows
               /\ \E e \in GetActiveWindows : e.id = w /\ e.isRunning

\* C9: the reaper removes an entry only when the window's thread has run and
\* finished; an entry whose thread has not started yet is never removed.
C9_ReaperOnlyRemovesExited ==
    \A w \in Ids : reapedAt[w] \in {NoId, "d_done", "stopped"}

\* C10: an entry whose window exited on its own (running false again) is
\* removed by a reaper tick unless the context is cancelled, without any
\* destroy call; and a tick leaves no such entry behind.
C10_ExitedEntryIsReaped ==
    /\ \A w \in Ids :
          (w \in activeWindows /\ pc[w] \in {"d_done", "stopped"})
              ~> (w \notin activeWindows \/ ctxDone \/ proc # "up")
    /\ [][cleanupDeadWindows =>
            \A w \in Ids : pc[w] \in {"d_done", "stopped"} => w \notin activeWindows']_vars

\* a window that left through the escape key was reaped after its thread ended
C10_Witness ==
    \E w \in Ids :
        /\ reapedAt[w] = "stopped"
        /\ ~closeChan[w]
        /\ w \notin activeWindows
        /\ ~ctxDone


\* C11: once DestroyCharacter(id) has returned true, GetActiveWindows never
\* lists id again, whatever the window thread and the reaper do meanwhile.
C11_DestroyedNeverListed ==
    \A w \in destroyed : \A r \in GetActiveWindows : r.id # w

\* a destroy call has returned true while the thread of its window still has
\* the running flag set
C11_Witness ==
    \E w \in destroyed : running[w]

\* the thread of w has left on a failure path: it is in its deferred calls or
\* has exited, and never loaded a texture (window or renderer refused, or
\* LoadFrames returned an error)
FailedToStart(w) ==
    /\ pc[w] \in {"d_renderer", "d_window", "d_running", "d_done", "stopped"}
    /\ textures[w] = 0
    /\ freed[w] = 0

\* C12: a spawn call that returns when its window has already failed to start
\* (window or renderer refused, no decodable frame) returns the zero-value
\* record, with no id.
C12_FailedSpawnReturnsZero ==
    [][\A w \in Ids :
        (spawnRet[w] = <<>> /\ spawnRet'[w] # <<>> /\ FailedToStart(w))
            => spawnRet'[w] = ZeroInfo]_vars

\* LoadFrames of w has returned an error: the renderer was created, no texture
\* was ever loaded and the thread is in its deferred calls or has exited
FrameLoadFailed(w) ==
    /\ FailedToStart(w)
    /\ renderer[w] # "nil"

\* C13: a window whose frame loading has failed is not returned by
\* GetActiveWindows, and its running flag is false once its thread has exited.
C13_FailedLoadNeverListed ==
    \A w \in Ids :
        FrameLoadFailed(w) =>
            /\ \A r \in GetActiveWindows : r.id # w
            /\ (pc[w] = "stopped" => ~running[w])

\* C14: the running flag is true only while the native window and the renderer
\* both exist and the loop has not exited; it is false in Created, throughout a
\* Starting phase that ends in a creation failure, and in Stopped.
C14_RunningOnlyWhenCreated ==
    \A w \in Ids :
        running[w] =>
            /\ window[w] = "live"
            /\ renderer[w] = "live"
            /\ pc[w] \in {"has_renderer", "registering", "loop"}

\* C15 as stated: the RenderContext registry holds an entry for a window
\* exactly while its renderer exists and its teardown has not begun.
C15_EntryIffRendererLive ==
    \A w \in Ids :
        w \in renderContexts <=>
            /\ renderer[w] = "live"
            /\ pc[w] \in {"has_renderer", "registering", "loop", "unregistering"}

\* C15 amended: the registry holds an entry for a window exactly from the end
\* of its registration, which follows the loading of its frames, until its
\* unregistration, the first step of teardown; while the entry exists the
\* window, the renderer and at least one texture exist.
C15_EntryIffRegistered ==
    \A w \in Ids :
        /\ w \in renderContexts <=> pc[w] \in {"loop", "unregistering"}
        /\ w \in renderContexts =>
                /\ window[w] = "live"
                /\ renderer[w] = "live"
                /\ textures[w] >= 1

\* one window is registered while another has its renderer and no entry yet
C15_Witness ==
    \E w \in Ids, x \in Ids :
        /\ w \in renderContexts
        /\ renderer[x] = "live"
        /\ pc[x] = "has_renderer"
        /\ x \notin renderContexts

\* the thread of w has left its body and is running its deferred calls
Exiting(w) ==
    pc[w] \in {"unregistering", "d_cleanup", "d_renderer", "d_window",
               "d_running", "d_done"}

\* C16: on every exit path of a started window the completion signal fires
\* exactly once, as the last step of the thread, and a thread that has begun
\* to exit does fire it while the process lives; whenever Wait can return,
\* IsRunning is false and stays false forever.
C16_DoneOnceAfterStopped ==
    /\ [](\A w \in Ids : Wait(w) => (~IsRunning(w) /\ pc[w] = "stopped"))
    /\ [][\A w \in Ids :
            /\ Wait(w) => (doneChan'[w] /\ ~running'[w])
            /\ (~doneChan[w] /\ doneChan'[w]) =>
                    (pc[w] = "d_done" /\ pc'[w] = "stopped")
            /\ pc[w] = "stopped" => (doneChan[w] /\ pc'[w] = "stopped")]_vars
    /\ \A w \in Ids : Exiting(w) ~> (Wait(w) \/ proc # "up")

\* a window that ran, was closed by a caller and has signalled completion
C16_Witness ==
    /\ Wait("w1")
    /\ ~IsRunning("w1")
    /\ closeChan["w1"]
    /\ freed["w1"] >= 1
    /\ proc = "up"

\* C17: on every exit path each native resource the thread acquired (window,
\* renderer, textures, registry entry) is released exactly once and none is
\* left at Stopped; the registry entry is removed before any texture, the
\* renderer or the window is released, textures go before the renderer and the
\* renderer before the window.
C17_ResourcesReleasedOnce ==
    /\ [](\A w \in Ids :
            /\ pc[w] = "stopped" =>
                    /\ window[w] \in {"nil", "destroyed"}
                    /\ renderer[w] \in {"nil", "destroyed"}
                    /\ textures[w] = 0
                    /\ w \notin renderContexts
            /\ w \in renderContexts =>
                    (window[w] = "live" /\ renderer[w] = "live" /\ freed[w] = 0)
            /\ renderer[w] = "destroyed" => textures[w] = 0
            /\ window[w] = "destroyed" => renderer[w] # "live")
    /\ [][\A w \in Ids :
            /\ (textures[w] + freed[w] > 0) =>
                    (textures'[w] + freed'[w] = textures[w] + freed[w])
            /\ window[w] # window'[w] =>
                    (window'[w] = "destroyed" <=> window[w] = "live")
            /\ renderer[w] # renderer'[w] =>
                    (renderer'[w] = "destroyed" <=> renderer[w] = "live")]_vars

\* a window that ran, left on an escape or quit event and has released its
\* textures, renderer and window
C17_Witness ==
    /\ pc["w1"] = "stopped"
    /\ ~closeChan["w1"]
    /\ freed["w1"] >= 1
    /\ renderer["w1"] = "destroyed"
    /\ window["w1"] = "destroyed"

\* C18: SetScale and Close never block their caller: whatever the state of the
\* window thread and however many scale values are waiting unconsumed, a caller
\* inside Close can take its next step and a SetScale call can complete.
C18_SignalsNeverBlock ==
    proc = "up" =>
        /\ cpc["c1"] = "close_select" => ENABLED CloseSelect("c1")
        /\ cpc["c1"] = "close_default" => ENABLED CloseDefault("c1")
        /\ \A v \in SignalInputs :
                scaleCalls < MaxBurst =>
                    ENABLED SetCharacterScale("w1", v, MaxBurst)

\* a SetScale call is due while the buffer is full and the thread has not
\* reached its loop
C18_Witness ==
    /\ proc = "up"
    /\ "w1" \in activeWindows
    /\ Len(scaleChan["w1"]) = ScaleChanCap
    /\ scaleCalls < MaxBurst
    /\ pc["w1"] \in {"created", "launched", "starting"}

\* C19: after SetCharacterScale(id, v) on a registered Running window, once
\* the loop has consumed every pending scale value (and no scale key was
\* pressed since), GetActiveWindows reports scale v for id.
C19_SetScaleIsReported ==
    \A w \in activeWindows :
        (pc[w] = "loop" /\ scaleChan[w] = <<>> /\ lastSent[w] # <<>>)
            => \E r \in GetActiveWindows :
                    r.id = w /\ r.scale = lastSent[w][1]

\* C20: DestroyCharacter(id) and SetCharacterScale(id, v) with an id that is
\* not in the registry return false, close no closeChan, send to no scaleChan
\* and leave the registry as it was.
C20_UnknownIdIsRejected ==
    [][\A w \in Ids :
        w \notin activeWindows =>
            /\ \A c \in Callers :
                    DestroyLookup(c, w) =>
                        /\ lastRet' = <<"destroy", "false">>
                        /\ UNCHANGED <<closeChan, scaleChan, activeWindows>>
            /\ \A v \in ScaleInputs :
                    SetCharacterScale(w, v, MaxScaleCalls) =>
                        /\ lastRet' = <<"setScale", "false">>
                        /\ UNCHANGED <<closeChan, scaleChan, activeWindows>>]_vars

\* a destroy call has returned false for an id that an earlier call removed
\* while the thread of that window is still in its loop
C20_Witness ==
    /\ lastRet = <<"destroy", "false">>
    /\ "w1" \in destroyed
    /\ "w1" \notin activeWindows
    /\ pc["w1"] = "loop"

\* C21: a step by which one window fails to start or exits (creation failure,
\* frame load failure, return from the loop, any deferred call) changes nothing
\* of any other window: their running flag, scale, lifecycle state,
\* RenderContext entry and controller entry stay as they were, and their
\* threads live on (the process is not ended).
C21_ExitLeavesOthersAlone ==
    [][\A w \in Ids :
        (pc[w] # pc'[w] /\ (Exiting(w) \/ Exiting(w)'))
            => /\ proc' = proc
               /\ \A x \in Ids \ {w} :
                    /\ running'[x] = running[x]
                    /\ currentScale'[x] = currentScale[x]
                    /\ pc'[x] = pc[x]
                    /\ (x \in renderContexts') = (x \in renderContexts)
                    /\ (x \in activeWindows') = (x \in activeWindows)]_vars

\* the loop of w makes its Update in this step: an iteration that takes the
\* default case of the select and meets no quit, escape or scale key event
LoopUpdates(w) ==
    /\ pc[w] = "loop"
    /\ \E evs \in EventSeqs({"other"}) : LoopIteration(w, "default", evs)

\* the event watcher makes its Update of w in this step
WatcherUpdates(w) ==
    /\ wpc = "draw"
    /\ wtarget = w
    /\ WatcherDraw

\* C22: with at least one frame, an Update advances the frame index iff the
\* time since the last advance is at least the frame interval; it then moves
\* to the next index modulo the frame count (the last wraps to 0) and records
\* the time of the advance; Updates made sooner, Updates with no frame, and
\* steps that are no Update leave index and time as they were.
C22_UpdateAdvancesOnInterval ==
    [][\A w \in Ids :
        LET n == textures[w]
            due == n >= 1 /\ now - lastFrameTime[w] >= DefaultFrameDelay
            updates == LoopUpdates(w) \/ WatcherUpdates(w)
        IN  IF updates /\ due
            THEN /\ currentFrame'[w] =
                        (IF currentFrame[w] = n - 1 THEN 0
                         ELSE currentFrame[w] + 1)
                 /\ lastFrameTime'[w] = now
            ELSE /\ currentFrame'[w] = currentFrame[w]
                 /\ lastFrameTime'[w] = lastFrameTime[w]]_vars

\* a player with two frames has advanced twice, each time exactly one frame
\* interval after the last advance, and has wrapped to index 0
C22_Witness ==
    /\ textures["w1"] = 2
    /\ currentFrame["w1"] = 0
    /\ lastFrameTime["w1"] = 2 * DefaultFrameDelay

\* C23: after a drag-hold during which the event watcher rendered the window
\* twice, once the loop has resumed and made its Update, the frame index
\* shown is the one a player polled at every tick of the same period would
\* show.
C23_ForcedRenderKeepsPace ==
    \A w \in Ids :
        (pc[w] = "loop" /\ w \notin held /\ lastPoll[w] = now
            /\ forced[w] = MaxForced)
        => currentFrame[w] =
               Update(textures[w], refFrame[w], refLast[w], now)[1]

\* C24: the AnimationPlayer of a window is used by one thread at a time:
\* while the event watcher is about to Update and Render the player of w on a
\* thread other than w's own, the thread of w is not at a point where it uses
\* the player itself (its loop: Update, Render, SetScale, ScaleUp, ScaleDown;
\* its deferred Cleanup).
C24_PlayerUsedByOneThread ==
    \A w \in Ids :
        (wpc = "draw" /\ wtarget = w /\ wthread # w)
            => pc[w] \notin {"loop", "d_cleanup"}

\* the event types on which the watcher acts (part_001 lines 50-52)
WindowEventTypes ==
    {"moved", "exposed", "resized"}

\* C25: on a moved, resized or exposed event the watcher looks the window id
\* up; with a RenderContext registered it makes exactly one update, clear,
\* render, present cycle and returns, with none it returns without any update
\* or draw; on any other event type it makes no lookup, update or draw.
C25_OneCyclePerWindowEvent ==
    [][/\ \A t \in Ids, w \in Ids, et \in WatchEventTypes :
            WatcherCall(t, w, et) =>
                IF et \in WindowEventTypes
                THEN wpc' = "lookup" /\ wtarget' = w
                ELSE wpc' = "idle" /\ UNCHANGED <<currentFrame, lastFrameTime>>
       /\ (wpc = "lookup" /\ wpc' # "lookup") =>
            /\ UNCHANGED <<currentFrame, lastFrameTime>>
            /\ IF wtarget \in renderContexts
               THEN wpc' = "draw" /\ wtarget' = wtarget
               ELSE wpc' = "idle"
       /\ (wpc = "draw" /\ wpc' # "draw") =>
            /\ wpc' = "idle"
            /\ \A x \in Ids \ {wtarget} :
                    /\ currentFrame'[x] = currentFrame[x]
                    /\ lastFrameTime'[x] = lastFrameTime[x]]_vars

\* the watcher has found the context of one window and is about to draw it
\* while another window exists that has no context
C25_Witness ==
    /\ wpc = "draw"
    /\ wtarget \in renderContexts
    /\ \E x \in Ids : window[x] = "live" /\ x \notin renderContexts

\* C26: the watcher callback never swallows an event: whatever the event type
\* and whether or not a RenderContext is registered, it returns true.
C26_WatcherNeverSwallows ==
    watchRet # "false"

\* the callback has returned while a context is registered
C26_Witness ==
    /\ watchRet = "true"
    /\ wpc = "idle"
    /\ renderContexts # {}

C28_FrameIndexInRange ==
    \A w \in Ids :
        textures[w] > 0 =>
            (currentFrame[w] >= 0 /\ currentFrame[w] < textures[w])

\* a player with several frames shows its last frame and is due to wrap
C28_Witness ==
    \E w \in Ids :
        /\ textures[w] >= 2
        /\ currentFrame[w] = textures[w] - 1
        /\ pc[w] = "loop"
        /\ now - lastFrameTime[w] >= DefaultFrameDelay

\* C29: the scale stored in the AnimationPlayer is at least the floor 0.1 in
\* every reachable state, after any SetScale (below the floor, zero and
\* negative values included), ScaleUp and ScaleDown starting from 0.51.
C29_PlayerScaleAtLeastFloor ==
    \A w \in Ids : animScale[w] >= ScaleFloor

\* the player sits on the floor after a scale key, following a SetScale
C29_Witness ==
    /\ animScale["w1"] = ScaleFloor
    /\ keyPresses >= 1
    /\ scaleCalls >= 1
    /\ lastSent["w1"] = <<>>
    /\ pc["w1"] = "loop"

\* C30: LoadFrames returns no error iff at least one file of the directory
\* yields a texture; the frames it loaded are exactly those files, in the
\* lexicographic order of their names, so the frame count on success is their
\* number and a failing file is skipped; an empty directory or one where
\* every file fails gives an error.
C30_LoadFramesContract ==
    \A w \in Ids :
        loadErr[w] # "unset" =>
            LET good == {f \in FileNames : dir[f] = "ok"}
                n == Len(frames[w])
            IN  /\ (loadErr[w] = "nil") <=> (good # {})
                /\ n = Cardinality(good)
                /\ {frames[w][i] : i \in 1..n} = good
                /\ \A i, j \in 1..n : i < j => LexLess(frames[w][i], frames[w][j])
                /\ pc[w] = "registering" => textures[w] = Cardinality(good)

\* the file "1" gave no surface, and "10" and "2" were loaded in that order
C30_Witness ==
    /\ dir[<<1>>] = "nosurface"
    /\ loadErr["w1"] = "nil"
    /\ frames["w1"] = << <<1, 0>>, <<2>> >>
    /\ pc["w1"] = "registering"
    /\ textures["w1"] = 2

\* C31: Cleanup releases every loaded texture exactly once: no texture is
\* ever destroyed twice, after a Cleanup every texture that was loaded has
\* been destroyed once and the frame count is 0, a Cleanup after the first
\* (or on a player without frames) destroys nothing, and an Update or a
\* Render after a Cleanup changes and draws nothing.
C31_CleanupReleasesOnce ==
    /\ \A f \in FileNames : apReleased[f] <= 1
    /\ apCleanups >= 1 =>
          /\ Len(apTextures) = 0
          /\ apPc = "ready" =>
                \A f \in FileNames : (apReleased[f] = 1) <=> (dir[f] = "ok")
          /\ apLast[1] \in {"update", "render"} => apLast[2] = 0
    /\ (apLast[1] = "cleanup" /\ (apCleanups >= 2 \/ apPc = "failed")) =>
          apLast[2] = 0

\* a second Cleanup was made on a player whose two textures were released
C31_Witness ==
    /\ apCleanups = 2
    /\ apLast = <<"cleanup", 0>>
    /\ Cardinality({f \in FileNames : apReleased[f] = 1}) = 2

\* an Update after the Cleanup found the frame interval elapsed
C31_WitnessUpdate ==
    /\ apCleanups = 1
    /\ apLast = <<"update", 0>>
    /\ now - apFrameTime >= DefaultFrameDelay
    /\ \E f \in FileNames : apReleased[f] = 1

\* C37: the texture sequence and the original-size sequence of a player have
\* the same length (and name the same files) after every file processed by
\* LoadFrames, a file with a surface and without texture included, and
\* after Cleanup.
C37_TexturesAndSizesParallel ==
    /\ Len(apTextures) = Len(apSizes)
    /\ apTextures = apSizes

\* LoadFrames has just processed a file that gave a surface and no texture,
\* after one that gave a texture
C37_Witness ==
    /\ apPc = "loading"
    /\ Len(apTextures) = 1
    /\ dir[<<1>>] = "ok"
    /\ dir[<<1, 0>>] = "notexture"
    /\ apFiles = << <<2>> >>

\* both sequences are empty after the Cleanup of a player that had frames
C37_WitnessCleanup ==
    /\ apCleanups = 1
    /\ apLast[1] = "cleanup"
    /\ apLast[2] >= 1
    /\ apSizes = <<>>

\* C32: a goroutine about to mutate the id -> window map holds App.mu for
\* writing, one about to read the map holds it for reading or writing, and
\* a goroutine inside a mutation never coexists with another goroutine
\* inside any access of the map.
C32_MapAccessUnderLock ==
    /\ \A t \in MuThreads :
          /\ Pending(t) = "write" => muWriter = t
          /\ Pending(t) = "read" => (t \in muReaders \/ muWriter = t)
    /\ \A t, u \in MuThreads :
          (t # u /\ Pending(t) = "write") => Pending(u) \notin {"read", "write"}
    /\ muWriter # NoId => muReaders = {}

\* the reaper is inside its deletes while one caller waits for the write
\* lock to delete and the other waits for the read lock to look up
C32_Witness ==
    /\ Pending("reaper") = "write"
    /\ mop["c1"] = "destroy"
    /\ Pending("c1") = "Lock"
    /\ mop["c2"] = "setScale"
    /\ Pending("c2") = "RLock"

\* two callers are inside a read of the map at the same time
C32_WitnessReaders ==
    /\ Pending("c1") = "read"
    /\ Pending("c2") = "read"
    /\ muReaders = {"c1", "c2"}

\* a step that is one loop iteration of window w
LoopIterates(w) ==
    \E choice \in {"close", "scale", "default"}, evs \in EventSeqs(ExitEventTypes) :
        LoopIteration(w, choice, evs)

\* C33: a loop iteration of a Running window that starts with the close
\* signal pending leaves the loop in that iteration, whether or not scale
\* updates are pending as well.
C33_PendingCloseWins ==
    [][\A w \in Ids :
          (pc[w] = "loop" /\ closeChan[w] /\ LoopIterates(w))
              => pc'[w] = "unregistering"]_vars

\* a step that is one loop iteration of window w in which the select takes
\* the scale case and no key is handled
LoopTakesScale(w) ==
    \E evs \in EventSeqs({"other"}) : LoopIteration(w, "scale", evs)

\* C34: a loop iteration of a Running window that finds scale updates
\* pending ends with the player's scale equal to the most recently sent
\* pending value, clamped, and with no older pending value left for a later
\* iteration.
C34_LatestPendingApplied ==
    [][\A w \in Ids :
          (pc[w] = "loop" /\ scaleChan[w] # <<>> /\ LoopTakesScale(w))
              => /\ animScale'[w] = APSetScale(scaleChan[w][Len(scaleChan[w])])
                 /\ scaleChan'[w] = <<>>]_vars

\* C35: the animation of a player never advances twice within one frame
\* interval: whenever its frame index changes, at least the frame interval
\* has passed since the time recorded at the previous advance, also when the
\* Update of the owning loop and the Update of the forced render interleave.
C35_OneAdvancePerInterval ==
    [][\A w \in Ids :
          currentFrame'[w] # currentFrame[w]
              => now - lastFrameTime[w] >= DefaultFrameDelay]_vars

\* the lifecycle state of a window thread at position p: 0 not constructed,
\* 1 Created, 2 Starting, 3 Running, 4 releasing on the way out (Closing, or
\* the releases after a creation failure), 5 Stopped
LifecycleRank(p) ==
    CASE p = "none" -> 0
      [] p = "created" -> 1
      [] p \in {"launched", "starting", "has_window", "has_renderer", "registering"} -> 2
      [] p = "loop" -> 3
      [] p \in {"unregistering", "d_cleanup", "d_renderer", "d_window",
                "d_running", "d_done"} -> 4
      [] p = "stopped" -> 5

\* C36: the lifecycle of a window only moves forward: no step takes a window
\* to an earlier state, nothing leaves Stopped, Running is entered only from
\* Starting with the native window, the renderer and at least one frame
\* obtained, a failed start never passes through Running, and the running
\* flag turns true only in the first step of the thread, hence once.
C36_LifecycleMovesForward ==
    [][\A w \in Ids :
          /\ LifecycleRank(pc'[w]) >= LifecycleRank(pc[w])
          /\ pc[w] = "stopped" => pc'[w] = "stopped"
          /\ (pc[w] # "loop" /\ pc'[w] = "loop") =>
                /\ LifecycleRank(pc[w]) = 2
                /\ window'[w] = "live"
                /\ renderer'[w] = "live"
                /\ textures'[w] >= 1
          /\ (LifecycleRank(pc[w]) < 3 /\ LifecycleRank(pc'[w]) > 3) =>
                (window[w] = "nil" \/ renderer[w] = "nil" \/ textures'[w] = 0)
          /\ (~running[w] /\ running'[w]) =>
                (pc[w] = "launched" /\ pc'[w] = "starting")]_vars

\* a window that ran, was closed and released its textures has stopped
C36_Witness ==
    /\ pc["w1"] = "stopped"
    /\ freed["w1"] >= 1
    /\ closeChan["w1"]
    /\ ~running["w1"]

\* the thread of window w has executed its first statement
ThreadBegan(w) ==
    pc[w] \notin {"none", "created", "launched"}

\* nothing of window w is registered or alive
Released(w) ==
    /\ w \notin renderContexts
    /\ textures[w] = 0
    /\ renderer[w] # "live"
    /\ window[w] # "live"

\* C38: once the thread of a window has begun, IsRunning is false only when
\* its RenderContext is unregistered and its textures, renderer and native
\* window are released, so an entry the reaper removes for that reason holds
\* nothing; the flag is cleared by the step that follows the last release
\* and before the completion signal fires.
C38_NotRunningMeansReleased ==
    /\ [](\A w \in Ids :
            /\ (ThreadBegan(w) /\ ~IsRunning(w)) => (Released(w) /\ pc[w] \in {"d_done", "stopped"})
            /\ reapedAt[w] \in {"d_done", "stopped"} => Released(w)
            /\ doneChan[w] => ~running[w])
    /\ [][\A w \in Ids :
            (running[w] /\ ~running'[w]) =>
                (Released(w) /\ pc[w] = "d_running" /\ ~doneChan'[w])]_vars

\* a window that had textures has cleared its flag and not yet signalled
\* completion, and the reaper has removed its entry
C38_Witness ==
    \E w \in Ids :
        /\ pc[w] = "d_done"
        /\ ~running[w]
        /\ ~doneChan[w]
        /\ freed[w] >= 1
        /\ window[w] = "destroyed"
        /\ reapedAt[w] = "d_done"

\* C39: every RenderContext in the registry belongs to a player whose
\* LoadFrames succeeded and whose textures are not released: an entry is
\* added only by a thread that has loaded at least one frame, and textures
\* are released only by a thread whose entry is gone.
C39_ContextHasLoadedPlayer ==
    /\ [](\A w \in renderContexts : textures[w] >= 1 /\ freed[w] = 0)
    /\ [][\A w \in Ids :
            /\ (w \notin renderContexts /\ w \in renderContexts') =>
                    (pc[w] = "registering" /\ textures[w] >= 1)
            /\ freed'[w] > freed[w] =>
                    (w \notin renderContexts /\ pc[w] = "d_cleanup")]_vars

\* one window is registered with its frames while the other, unregistered
\* again, has released its textures
C39_Witness ==
    \E w \in Ids, x \in Ids :
        /\ w \in renderContexts
        /\ textures[w] >= 1
        /\ x \notin renderContexts
        /\ freed[x] >= 1
        /\ textures[x] = 0

\* C40: between the loop iterations of a Running window the scale GetScale
\* returns equals the scale stored in the window's player, after any scale
\* updates received from the channel and any up/down keys; both are the
\* default 0.51 until the first update or key.
C40_PublishedEqualsPlayerScale ==
    /\ \A w \in Ids : pc[w] = "loop" => currentScale[w] = animScale[w]
    /\ \A w \in Ids :
          LifecycleRank(pc[w]) <= 2 =>
              (currentScale[w] = DefaultScale /\ animScale[w] = DefaultScale)

====
